---------------------------- MODULE Spec2Model ----------------------------
(***************************************************************************)
(* County election pipeline (processing/02 .. 07): the per-cycle           *)
(* aggregator's share computation, the swing calculator and the trend and  *)
(* classification engine, as state machines over small tables.             *)
(*                                                                         *)
(* Numbers.  Percentages that the code rounds to 2 decimals are kept as    *)
(* integers in hundredths (14.37 is 1437).  The code computes them in IEEE *)
(* binary64, x = n / d * 100 followed by numpy's round(x, 2), which is     *)
(* rint(x * 100) / 100: three correctly rounded operations and a           *)
(* round-half-even to an integer.  FDiv, FMul100 and FRint below carry out *)
(* exactly these operations on 53-bit significands.                        *)
(***************************************************************************)
EXTENDS Integers, Sequences, FiniteSets, TLC

VARIABLES
    stage,      \* which component the run exercises
    votes, \* aggregator: one county's DEMOCRAT / REPUBLICAN vote counts
    wide, \* aggregator: the wide table produced (no row, or the county's row)
    wideBy, \* aggregator: the routine that produced it
    elections, \* swing: the two cycles' tables, elections[1] for year1, elections[2] for year2
    called, \* swing: the entry point that ran
    swing_df, \* swing: what calculate_two_party_swing did: returned a table, or raised
    swingFile, \* swing: swings_{year1}_to_{year2}.csv
    pairResult, \* swing: how process_swing_pair ended
    county_history, \* trends: the rows of one county, one per cycle, in file order
    metrics, \* trends: the record calculate_county_trends returned (none, or one)
    score, \* trends: the value calculate_bellwether_score returned (none, or one)
    classifyIn, \* classification: the metrics record given to classify_county
    classification, \* classification: the label classify_county returned
    cleaned, \* cycle aggregation: the cleaned long table, one row per county, party and candidate
    cycle, \* cycle aggregation: the year process_year ran for (none yet, or one)
    agg_df, \* cycle aggregation: the table aggregate_by_county_party returned
    wide_df, \* cycle aggregation: the table create_wide_format returned
    raw_party, \* party names: the raw label given to standardize_party_name (null, or its characters)
    standardized, \* party names: the values returned, the second one for the first one as input
    raw_df, \* identifiers: the raw table given to clean_fips_codes
    fips_df, \* identifiers: the table clean_fips_codes returned (none yet, or one)
    driver, \* batch: the stage whose main() runs
    mode, \* batch: single item, all items, or default
    arg, \* batch: the item named on the command line in single mode (none, or one)
    setup_ok, \* batch: whether the steps of main() before the first unit go through
    failing, \* batch: the units of the run whose processing raises
    pc, \* batch: where main() is
    todo, \* batch: the units still to be attempted, in order
    attempts, \* batch: the units attempted so far, in order
    results, \* batch: the result records main() holds
    logged, \* batch: the units whose failure was logged
    written, \* batch: the units whose output file was written
    exit_code, \* batch: the value main() returned (none yet, or one)
    name_a, \* county names: the name one table gives a county (null, or its characters)
    name_b, \* county names: the name another table gives, same state
    match_keys, \* county names: the keys of the two names (none yet, or both)
    normalizer, \* county names: the routine that produced the keys
    df_2020, \* identifier repair: the rows of elections_2020.csv
    df_2024, \* identifier repair: the raw rows of the 2024 cycle
    fix_2024, \* identifier repair: how fix_2024_fips ended and the table it wrote (none yet, or one)
    all_swings, \* bellwether: the swing tables given to identify_bellwether_counties, one per pair of cycles
    bellwether_df, \* bellwether: the table identify_bellwether_counties returned (none yet, or one)
    df1, \* county matching: the left table given to match_counties
    df2, \* county matching: the right table given to match_counties
    match_result, \* county matching: how match_counties ended and the table it returned (none yet, or one)
    row_value, \* front-end export: the value a map-file row holds for a property
    prop, \* front-end export: the name of the property
    cleaned_value, \* front-end export: what clean_value_for_json returned (none yet, or one)
    county_data, \* front-end export: the entries written to the county's record for the property
    cycle_winners, \* derived files: the winner of each county in each cycle's election table (D, R, or - for a county the table lacks)
    swing_files, \* derived files: swings_{year1}_to_{year2}.csv of each adjacent pair of cycles
    map_files, \* derived files: the rows of each county in the election_map files, one per cycle
    stage06_runs, \* derived files: what each completed run of stage 06 produced, in order
    classifications_file, \* derived files: county_classifications.csv
    bellwether_file, \* derived files: bellwether_counties.csv
    stage_runs, \* derived files: the number of stage runs so far
    mit_2020, \* 2024 file: the raw rows of the 2020 cycle in the source table
    mit_2024, \* 2024 file: the raw rows of the 2024 cycle in the source table
    elections_2020, \* 2024 file: the rows of elections_2020.csv
    elections_2024, \* 2024 file: elections_2024.csv
    elections_2024_broken, \* 2024 file: elections_2024_broken.csv, the backup fix_2024_fips leaves
    fix_succeeded, \* 2024 file: fix_2024_fips has run to its end at least once
    runs_2024 \* 2024 file: the number of runs of stage 02 and of fix_2024_fips so far

aggVars == <<votes, wide, wideBy>>
swingVars == <<elections, called, swing_df, swingFile, pairResult>>
trendVars == <<county_history, metrics, score>>
classVars == <<classifyIn, classification>>
pivotVars == <<cleaned, cycle, agg_df, wide_df>>
partyVars == <<raw_party, standardized>>
fipsVars == <<raw_df, fips_df>>
batchVars == <<driver, mode, arg, setup_ok, failing, pc, todo, attempts, results, logged, written, exit_code>>
namesVars == <<name_a, name_b, match_keys, normalizer>>
fixVars == <<df_2020, df_2024, fix_2024>>
bellwetherVars == <<all_swings, bellwether_df>>
matchVars == <<df1, df2, match_result>>
exportVars == <<row_value, prop, cleaned_value, county_data>>
outputsVars == <<cycle_winners, swing_files, map_files, stage06_runs, classifications_file, bellwether_file, stage_runs>>
cycle2024Vars == <<mit_2020, mit_2024, elections_2020, elections_2024, elections_2024_broken, fix_succeeded, runs_2024>>
vars == <<stage, votes, wide, wideBy, elections, called, swing_df, swingFile, pairResult,
          county_history, metrics, score, classifyIn, classification, cleaned, cycle,
          agg_df, wide_df, raw_party, standardized, raw_df, fips_df, driver, mode, arg,
          setup_ok, failing, pc, todo, attempts, results, logged, written, exit_code,
          name_a, name_b, match_keys, normalizer, df_2020, df_2024, fix_2024, all_swings,
          bellwether_df, df1, df2, match_result, row_value, prop, cleaned_value,
          county_data, cycle_winners, swing_files, map_files, stage06_runs,
          classifications_file, bellwether_file, stage_runs, mit_2020, mit_2024,
          elections_2020, elections_2024, elections_2024_broken, fix_succeeded, runs_2024>>

\* everything but the variables of one component
exceptAgg == <<swingVars, trendVars, classVars, pivotVars, partyVars, fipsVars, batchVars,
          namesVars, fixVars, bellwetherVars, matchVars, exportVars, outputsVars,
          cycle2024Vars>>
exceptSwing == <<aggVars, trendVars, classVars, pivotVars, partyVars, fipsVars, batchVars,
          namesVars, fixVars, bellwetherVars, matchVars, exportVars, outputsVars,
          cycle2024Vars>>
exceptTrend == <<aggVars, swingVars, classVars, pivotVars, partyVars, fipsVars, batchVars,
          namesVars, fixVars, bellwetherVars, matchVars, exportVars, outputsVars,
          cycle2024Vars>>
exceptClass == <<aggVars, swingVars, trendVars, pivotVars, partyVars, fipsVars, batchVars,
          namesVars, fixVars, bellwetherVars, matchVars, exportVars, outputsVars,
          cycle2024Vars>>
exceptPivot == <<aggVars, swingVars, trendVars, classVars, partyVars, fipsVars, batchVars,
          namesVars, fixVars, bellwetherVars, matchVars, exportVars, outputsVars,
          cycle2024Vars>>
exceptParty == <<aggVars, swingVars, trendVars, classVars, pivotVars, fipsVars, batchVars,
          namesVars, fixVars, bellwetherVars, matchVars, exportVars, outputsVars,
          cycle2024Vars>>
exceptFips == <<aggVars, swingVars, trendVars, classVars, pivotVars, partyVars, batchVars,
          namesVars, fixVars, bellwetherVars, matchVars, exportVars, outputsVars,
          cycle2024Vars>>
exceptBatch == <<aggVars, swingVars, trendVars, classVars, pivotVars, partyVars, fipsVars,
          namesVars, fixVars, bellwetherVars, matchVars, exportVars, outputsVars,
          cycle2024Vars>>
exceptNames == <<aggVars, swingVars, trendVars, classVars, pivotVars, partyVars, fipsVars,
          batchVars, fixVars, bellwetherVars, matchVars, exportVars, outputsVars,
          cycle2024Vars>>
exceptFix == <<aggVars, swingVars, trendVars, classVars, pivotVars, partyVars, fipsVars,
          batchVars, namesVars, bellwetherVars, matchVars, exportVars, outputsVars,
          cycle2024Vars>>
exceptBellwether == <<aggVars, swingVars, trendVars, classVars, pivotVars, partyVars,
          fipsVars, batchVars, namesVars, fixVars, matchVars, exportVars, outputsVars,
          cycle2024Vars>>
exceptMatch == <<aggVars, swingVars, trendVars, classVars, pivotVars, partyVars, fipsVars,
          batchVars, namesVars, fixVars, bellwetherVars, exportVars, outputsVars,
          cycle2024Vars>>
exceptExport == <<aggVars, swingVars, trendVars, classVars, pivotVars, partyVars, fipsVars,
          batchVars, namesVars, fixVars, bellwetherVars, matchVars, outputsVars,
          cycle2024Vars>>
exceptOutputs == <<aggVars, swingVars, trendVars, classVars, pivotVars, partyVars,
          fipsVars, batchVars, namesVars, fixVars, bellwetherVars, matchVars, exportVars,
          cycle2024Vars>>
exceptCycle2024 == <<aggVars, swingVars, trendVars, classVars, pivotVars, partyVars,
          fipsVars, batchVars, namesVars, fixVars, bellwetherVars, matchVars, exportVars,
          outputsVars>>

None == "None"

Abs(x) == IF x < 0 THEN 0 - x ELSE x
Max(a, b) == IF a > b THEN a ELSE b
Min(a, b) == IF a < b THEN a ELSE b

\* a file, or a table in memory: absent, or a sequence of rows
NoFile == [exists |-> FALSE, rows |-> <<>>]
File(rows) == [exists |-> TRUE, rows |-> rows]

\* a float cell: a number (in hundredths), NaN (pandas' null) or infinity
NaN == [kind |-> "nan", val |-> 0]
Inf == [kind |-> "inf", val |-> 0]
Num(v) == [kind |-> "num", val |-> v]

RECURSIVE GCD(_, _)
GCD(a, b) == IF b = 0 THEN a ELSE GCD(b, a % b)

\* the fraction n / d (d > 0) in lowest terms; a float that the code does not
\* round is kept as the exact fraction it approximates
Rat(n, d) == LET g == GCD(Abs(n), d) IN [n |-> n \div g, d |-> d \div g]
RLt(a, b) == a.n * b.d < b.n * a.d
RLe(a, b) == a.n * b.d <= b.n * a.d
RAbs(a) == [n |-> Abs(a.n), d |-> a.d]
Whole(k) == [n |-> k, d |-> 1]

(***************************************************************************)
(* IEEE binary64 arithmetic on small operands.  A positive double is       *)
(* [mant, exp]: its value is M * 2^exp, where M, 2^52 <= M < 2^53, is      *)
(* written in base 2^11 as the five limbs of mant, most significant first. *)
(* Exact quotients and products are limb sequences of any length; they are *)
(* cut back to 53 bits by RoundToDouble, round to nearest, ties to even.   *)
(***************************************************************************)
MantBits == 53
MantLimbs == 5
LimbBits == 11
FracLimbs == 7
Base == 2 ^ LimbBits

Dig(A, idx) == IF idx >= 1 /\ idx <= Len(A) THEN A[idx] ELSE 0

\* bits p .. p + w - 1 (bit 0 is the least significant) of the number A, w <= LimbBits
Piece(A, p, w) ==
    LET idx == Len(A) - (p \div LimbBits)
        b   == p % LimbBits
    IN  ((Dig(A, idx) \div (2 ^ b)) + Dig(A, idx - 1) * (2 ^ (LimbBits - b))) % (2 ^ w)

\* the number A is a multiple of 2^p
LowZero(A, p) ==
    LET idx == Len(A) - (p \div LimbBits)
        b   == p % LimbBits
    IN  /\ \A i \in 1..Len(A) : i > idx => A[i] = 0
        /\ Dig(A, idx) % (2 ^ b) = 0

BitLenSmall(v) ==
    IF v = 0 THEN 0 ELSE CHOOSE k \in 1..LimbBits : 2 ^ (k - 1) <= v /\ v < 2 ^ k

BitLen(A) ==
    LET nz == {i \in 1..Len(A) : A[i] # 0}
    IN  IF nz = {} THEN 0
        ELSE LET i == CHOOSE j \in nz : \A k \in nz : j <= k
             IN  (Len(A) - i) * LimbBits + BitLenSmall(A[i])

RECURSIVE IncrLimbs(_, _)
IncrLimbs(m, i) ==
    IF i = 0 THEN m
    ELSE IF m[i] + 1 < Base THEN [m EXCEPT ![i] = m[i] + 1]
    ELSE IncrLimbs([m EXCEPT ![i] = 0], i - 1)

\* the next double above x
FNextUp(x) ==
    LET inc == IncrLimbs(x.mant, MantLimbs)
    IN  IF inc[1] = 2 ^ (MantBits - (MantLimbs - 1) * LimbBits)
        THEN [mant |-> [i \in 1..MantLimbs |-> IF i = 1 THEN inc[1] \div 2 ELSE 0],
              exp |-> x.exp + 1]
        ELSE [mant |-> inc, exp |-> x.exp]

\* the double nearest to (A + fraction) * 2^e0, where the fraction is in [0, 1)
\* and is nonzero exactly when sticky0; A has more than MantBits bits
RoundToDouble(A, sticky0, e0) ==
    LET sh     == BitLen(A) - MantBits
        m      == [i \in 1..MantLimbs |-> Piece(A, sh + LimbBits * (MantLimbs - i), LimbBits)]
        guard  == Piece(A, sh - 1, 1)
        sticky == sticky0 \/ ~LowZero(A, sh - 1)
        up     == guard = 1 /\ (sticky \/ m[MantLimbs] % 2 = 1)
        x      == [mant |-> m, exp |-> e0 + sh]
    IN  IF up THEN FNextUp(x) ELSE x

\* k more base-2^11 digits of the fraction r / d
RECURSIVE FracDigits(_, _, _, _)
FracDigits(r, d, k, acc) ==
    IF Len(acc) >= 0 /\ k = 0 THEN [digits |-> acc, rem |-> r]
    ELSE LET t == r * Base
         IN  FracDigits(t % d, d, k - 1, Append(acc, t \div d))

\* n / d in binary64, for integers n > 0, d > 0
FDiv(n, d) ==
    LET q0 == n \div d
        f  == FracDigits(n % d, d, FracLimbs, <<>>)
    IN  RoundToDouble(<<q0 \div Base, q0 % Base>> \o f.digits, f.rem # 0,
                      0 - LimbBits * FracLimbs)

\* the limbs m[1..i] times c, plus carry, in front of acc
RECURSIVE MulLimbs(_, _, _, _, _)
MulLimbs(m, c, i, carry, acc) ==
    IF Len(acc) >= 0 /\ i = 0 THEN <<carry>> \o acc
    ELSE LET t == m[i] * c + carry
         IN  MulLimbs(m, c, i - 1, t \div Base, <<t % Base>> \o acc)

\* x * 100 in binary64
FMul100(x) == RoundToDouble(MulLimbs(x.mant, 100, MantLimbs, 0, <<>>), FALSE, x.exp)

\* numpy.rint of a double below 2^22: the nearest integer, ties to even
FRint(x) ==
    LET k      == 0 - x.exp
        ip     == Piece(x.mant, k + LimbBits, LimbBits) * Base + Piece(x.mant, k, LimbBits)
        guard  == Piece(x.mant, k - 1, 1)
        sticky == ~LowZero(x.mant, k - 1)
    IN  IF guard = 1 /\ (sticky \/ ip % 2 = 1) THEN ip + 1 ELSE ip

\* (n / d * 100).round(2) for d > 0, in hundredths: numpy rounds x to 2
\* decimals as rint(x * 100) / 100
RoundPct2(n, d) ==
    IF n = 0 THEN 0
    ELSE IF n > 0 THEN FRint(FMul100(FMul100(FDiv(n, d))))
    ELSE 0 - FRint(FMul100(FMul100(FDiv(0 - n, d))))

(***************************************************************************)
(* Per-cycle aggregator: create_wide_format, and the same lines in         *)
(* fix_2024_fips                                                           *)
(***************************************************************************)
MaxVotes == 93

\* 0 / 0 is NaN, .round(2) keeps it, and the trailing fillna(0) makes it 0
ShareOf(v, major) == IF major = 0 THEN 0 ELSE RoundPct2(v, major)

WinnerTieDemocrat(d, r) == IF d >= r THEN "DEMOCRAT" ELSE "REPUBLICAN"

\* the winner lambda of create_wide_format and fix_2024_fips
Winner(d, r) == IF d > r THEN "DEMOCRAT" ELSE "REPUBLICAN"

WideRow(d, r) ==
    LET major == d + r
        ds    == ShareOf(d, major)
        rs    == ShareOf(r, major)
    IN  [DEMOCRAT |-> d, REPUBLICAN |-> r, major_party_votes |-> major,
         dem_share |-> ds, rep_share |-> rs, margin |-> ds - rs,
         winner |-> Winner(d, r)]

CreateWideFormat ==
    /\ stage = "aggregate"
    /\ wide = <<>>
    /\ wide' = <<WideRow(votes.DEMOCRAT, votes.REPUBLICAN)>>
    /\ wideBy' = "create_wide_format"
    /\ UNCHANGED <<stage, votes>>
    /\ UNCHANGED exceptAgg

Fix2024Wide ==
    /\ stage = "aggregate"
    /\ wide = <<>>
    /\ wide' = <<WideRow(votes.DEMOCRAT, votes.REPUBLICAN)>>
    /\ wideBy' = "fix_2024_fips"
    /\ UNCHANGED <<stage, votes>>
    /\ UNCHANGED exceptAgg

(***************************************************************************)
(* Swing calculator: load_election_year, calculate_two_party_swing,        *)
(* process_swing_pair (04_calculate_swings.py)                             *)
(***************************************************************************)
MaxRows == 2

Fips == {"01001", "01003"}

\* (DEMOCRAT, REPUBLICAN, total_votes) of a county in one cycle
CountyResults == {<<0, 0, 0>>, <<2, 1, 3>>, <<1, 2, 7>>}

\* a row of elections_{year}.csv, as stage 02 writes it
ElecRow(f, c) ==
    LET w == WideRow(c[1], c[2])
    IN  [fips |-> f, DEMOCRAT |-> c[1], REPUBLICAN |-> c[2], total_votes |-> c[3],
         dem_share |-> w.dem_share, rep_share |-> w.rep_share, winner |-> w.winner]

ElecRows == {ElecRow(f, c) : f \in Fips, c \in CountyResults}

SeqsUpTo(S, n) == UNION {[1..k -> S] : k \in 0..n}

\* df.drop_duplicates(subset='fips', keep='first')
RECURSIVE DropDuplicates(_, _)
DropDuplicates(rows, seen) ==
    IF rows = <<>> THEN <<>>
    ELSE IF Head(rows).fips \in seen THEN DropDuplicates(Tail(rows), seen)
    ELSE <<Head(rows)>> \o DropDuplicates(Tail(rows), seen \cup {Head(rows).fips})

LoadElectionYearKeepAll(file) == file.rows

\* the table load_election_year returns for a file that exists
LoadElectionYear(file) == DropDuplicates(file.rows, {})

\* the rows of y1.merge(y2, on='fips', how='inner'): every pair of a left and a
\* right row with the same fips, in the order of the left rows
RECURSIVE Merge(_, _)
Merge(y1, y2) ==
    IF y1 = <<>> THEN <<>>
    ELSE LET a  == Head(y1)
             ms == SelectSeq(y2, LAMBDA b : b.fips = a.fips)
         IN  [i \in 1..Len(ms) |-> [l |-> a, r |-> ms[i]]] \o Merge(Tail(y1), y2)

SwingDirectionLabelGE(x) ==
    IF x >= 0 THEN "DEMOCRAT" ELSE IF x < 0 THEN "REPUBLICAN" ELSE "NO_CHANGE"

\* _swing_direction_label
SwingDirectionLabel(x) ==
    IF x > 0 THEN "DEMOCRAT" ELSE IF x < 0 THEN "REPUBLICAN" ELSE "NO_CHANGE"

FlipDirectionAlways(w1, w2, flipped) == w1 \o "_to_" \o w2

\* the lambda of swing_df['flip_direction']
FlipDirection(w1, w2, flipped) == IF flipped THEN w1 \o "_to_" \o w2 ELSE "NO_FLIP"

\* what a blanket division would give: x / 0 is infinite, 0 / 0 is NaN
TurnoutChangePctBlanket(t1, t2, anyZero) ==
    IF t1 = 0 THEN (IF t2 = 0 THEN NaN ELSE Inf) ELSE Num(RoundPct2(t2 - t1, t1))

\* swing_df['turnout_change_pct'] of one row; anyZero: some row of the table has
\* total_votes_y1 = 0, the case in which the code fills the column in two steps
TurnoutChangePct(t1, t2, anyZero) ==
    IF anyZero
    THEN IF t1 = 0 THEN NaN ELSE Num(RoundPct2(t2 - t1, t1))
    ELSE Num(RoundPct2(t2 - t1, t1))

SwingRow(p, anyZero) ==
    LET swing   == p.r.dem_share - p.l.dem_share
        flipped == p.l.winner # p.r.winner
    IN  [fips |-> p.l.fips,
         dem_share_y1 |-> p.l.dem_share, rep_share_y1 |-> p.l.rep_share,
         total_votes_y1 |-> p.l.total_votes, winner_y1 |-> p.l.winner,
         dem_share_y2 |-> p.r.dem_share, rep_share_y2 |-> p.r.rep_share,
         total_votes_y2 |-> p.r.total_votes, winner_y2 |-> p.r.winner,
         swing |-> swing,
         margin_change |-> (p.r.dem_share - p.r.rep_share) - (p.l.dem_share - p.l.rep_share),
         swing_magnitude |-> Abs(swing),
         swing_direction |-> SwingDirectionLabel(swing),
         flipped |-> flipped,
         flip_direction |-> FlipDirection(p.l.winner, p.r.winner, flipped),
         turnout_change |-> p.r.total_votes - p.l.total_votes,
         turnout_change_pct |-> TurnoutChangePct(p.l.total_votes, p.r.total_votes, anyZero)]

JoinTooBigNever(n, n1, n2) == FALSE

\* the verification after the merge
JoinTooBig(n, n1, n2) == n > Max(n1, n2)

\* the ways a call of calculate_two_party_swing can end.  With no row in the
\* join the outcome depends on the pandas release: swing_df.apply(..., axis=1)
\* on a table without rows returns either a column, and the empty table is
\* returned, or a table, and its assignment to the column flip_direction
\* raises ValueError.
CalculateTwoPartySwing(y1, y2) ==
    LET joined  == Merge(y1, y2)
        anyZero == \E i \in 1..Len(joined) : joined[i].l.total_votes = 0
    IN  IF JoinTooBig(Len(joined), Len(y1), Len(y2))
        THEN {[status |-> "raised", rows |-> <<>>]}
        ELSE IF joined = <<>>
        THEN {[status |-> "returned", rows |-> <<>>], [status |-> "raised", rows |-> <<>>]}
        ELSE {[status |-> "returned",
               rows |-> [i \in 1..Len(joined) |-> SwingRow(joined[i], anyZero)]]}

\* calculate_two_party_swing called on the two tables as they are
CallCalculateTwoPartySwing ==
    /\ stage = "swing"
    /\ called = None
    /\ elections[1].exists /\ elections[2].exists
    /\ called' = "calculate_two_party_swing"
    /\ \E res \in CalculateTwoPartySwing(elections[1].rows, elections[2].rows) :
          swing_df' = res
    /\ UNCHANGED <<stage, elections, swingFile, pairResult>>
    /\ UNCHANGED exceptSwing

\* process_swing_pair: load both files, calculate, analyze, export; any
\* exception is logged and raised again
ProcessSwingPair ==
    /\ stage = "swing"
    /\ called = None
    /\ called' = "process_swing_pair"
    /\ IF ~(elections[1].exists /\ elections[2].exists)
       THEN /\ pairResult' = "FileNotFoundError"
            /\ UNCHANGED <<swing_df, swingFile>>
       ELSE \E res \in CalculateTwoPartySwing(LoadElectionYear(elections[1]),
                                              LoadElectionYear(elections[2])) :
                /\ swing_df' = res
                /\ IF res.status = "raised"
                   THEN pairResult' = "ValueError" /\ UNCHANGED swingFile
                   ELSE pairResult' = "ok" /\ swingFile' = File(res.rows)
    /\ UNCHANGED <<stage, elections>>
    /\ UNCHANGED exceptSwing

(***************************************************************************)
(* Trend and classification engine (06_calculate_trends.py).  Margins are  *)
(* in hundredths of a point; averages, rates and the slope are exact       *)
(* fractions; margin_std is carried as its square, margin_std_sq (in       *)
(* hundredths squared), so that margin_std < 8 reads margin_std_sq < 800^2.*)
(***************************************************************************)
MaxCycles == 3

RECURSIVE SumSeq(_)
SumSeq(q) == IF q = <<>> THEN 0 ELSE Head(q) + SumSeq(Tail(q))

\* the rows of q in ascending order of year (sort_values('year'))
RECURSIVE InsertByYear(_, _)
InsertByYear(q, r) ==
    IF q = <<>> THEN <<r>>
    ELSE IF r.year < Head(q).year THEN <<r>> \o q
    ELSE <<Head(q)>> \o InsertByYear(Tail(q), r)

RECURSIVE SortByYear(_)
SortByYear(q) ==
    IF q = <<>> THEN <<>> ELSE InsertByYear(SortByYear(Tail(q)), Head(q))

RECURSIVE InsertNumber(_, _)
InsertNumber(q, v) ==
    IF q = <<>> THEN <<v>>
    ELSE IF v < Head(q) THEN <<v>> \o q
    ELSE <<Head(q)>> \o InsertNumber(Tail(q), v)

RECURSIVE SortNumbers(_)
SortNumbers(q) ==
    IF q = <<>> THEN <<>> ELSE InsertNumber(SortNumbers(Tail(q)), Head(q))

ClassifyCountySwingFirst(m) ==
    LET avg == m.avg_margin
        dem == RLt(Whole(0), avg)
    IN  IF RLt(Whole(1500), RAbs(avg)) /\ RLt(m.margin_std_sq, Whole(800 * 800))
           /\ RLt(m.flip_rate, Rat(1, 5))
        THEN (IF dem THEN "SOLID_DEM" ELSE "SOLID_REP")
        ELSE IF RLe(Rat(2, 5), m.flip_rate) \/ RLt(Whole(60), m.close_election_rate)
        THEN "SWING"
        ELSE IF RLt(Whole(500), RAbs(avg)) /\ RLt(m.flip_rate, Rat(2, 5))
        THEN (IF dem THEN "LEAN_DEM" ELSE "LEAN_REP")
        ELSE IF RLe(RAbs(avg), Whole(500))
        THEN (IF dem THEN "COMPETITIVE_DEM" ELSE "COMPETITIVE_REP")
        ELSE (IF dem THEN "LEAN_DEM" ELSE "LEAN_REP")

\* classify_county
ClassifyCounty(m) ==
    LET avg == m.avg_margin
        dem == RLt(Whole(0), avg)
    IN  IF RLt(Whole(1500), RAbs(avg)) /\ RLt(m.margin_std_sq, Whole(800 * 800))
           /\ RLt(m.flip_rate, Rat(1, 5))
        THEN (IF dem THEN "SOLID_DEM" ELSE "SOLID_REP")
        ELSE IF RLt(Whole(500), RAbs(avg)) /\ RLt(m.flip_rate, Rat(2, 5))
        THEN (IF dem THEN "LEAN_DEM" ELSE "LEAN_REP")
        ELSE IF RLe(Rat(2, 5), m.flip_rate) \/ RLt(Whole(60), m.close_election_rate)
        THEN "SWING"
        ELSE IF RLe(RAbs(avg), Whole(500))
        THEN (IF dem THEN "COMPETITIVE_DEM" ELSE "COMPETITIVE_REP")
        ELSE (IF dem THEN "LEAN_DEM" ELSE "LEAN_REP")

ClassifyBranchLeanBelowFifth(m) ==
    LET avg == m.avg_margin
    IN  IF RLt(Whole(1500), RAbs(avg)) /\ RLt(m.margin_std_sq, Whole(800 * 800))
           /\ RLt(m.flip_rate, Rat(1, 5))
        THEN 1
        ELSE IF RLt(Whole(500), RAbs(avg)) /\ RLt(m.flip_rate, Rat(1, 5)) THEN 2
        ELSE IF RLe(Rat(2, 5), m.flip_rate) \/ RLt(Whole(60), m.close_election_rate) THEN 3
        ELSE IF RLe(RAbs(avg), Whole(500)) THEN 4
        ELSE 5

\* the branch of classify_county that returns: 1 .. 4 for the if and the
\* three elifs, 5 for the final else
ClassifyBranch(m) ==
    LET avg == m.avg_margin
    IN  IF RLt(Whole(1500), RAbs(avg)) /\ RLt(m.margin_std_sq, Whole(800 * 800))
           /\ RLt(m.flip_rate, Rat(1, 5))
        THEN 1
        ELSE IF RLt(Whole(500), RAbs(avg)) /\ RLt(m.flip_rate, Rat(2, 5)) THEN 2
        ELSE IF RLe(Rat(2, 5), m.flip_rate) \/ RLt(Whole(60), m.close_election_rate) THEN 3
        ELSE IF RLe(RAbs(avg), Whole(500)) THEN 4
        ELSE 5

NationalYears == {2000, 2004, 2008, 2012, 2016, 2020, 2024}

\* NATIONAL_WINNERS
NationalWinners ==
    [y \in NationalYears |-> IF y \in {2004, 2024} THEN "REPUBLICAN" ELSE "DEMOCRAT"]

NullWinner == "nan"

\* winner read as the code reads it: a missing winner becomes UNKNOWN
WinnerOf(row) == IF row.winner = NullWinner THEN "UNKNOWN" ELSE row.winner

\* margin after fillna(0)
MarginOf(row) == IF row.margin.kind = "num" THEN row.margin.val ELSE 0

CalculateBellwetherScoreAllYears(h) ==
    LET matches == Cardinality({i \in 1..Len(h) :
                       h[i].year \in NationalYears /\ WinnerOf(h[i]) = NationalWinners[h[i].year]})
        total   == Len(h)
    IN  IF total > 0 THEN Rat(100 * matches, total) ELSE Whole(0)

\* calculate_bellwether_score
CalculateBellwetherScore(h) ==
    LET inTable == {i \in 1..Len(h) : h[i].year \in NationalYears}
        matches == Cardinality({i \in inTable : WinnerOf(h[i]) = NationalWinners[h[i].year]})
        total   == Cardinality(inTable)
    IN  IF total > 0 THEN Rat(100 * matches, total) ELSE Whole(0)

InsufficientDataBelow2(n) == n < 2

\* the length test of calculate_county_trends
InsufficientData(n) == n < 3

\* the slope np.polyfit returns is a binary64 number next to the exact
\* least-squares slope.  A computed slope is written [n, d, err]: n / d the
\* exact slope and err the side of it the computed number falls on (-1 below,
\* 0 on it, 1 above).  Only a comparison with a bound the exact slope is equal
\* to depends on err.
TrajectoryDirectionGE(slope) ==
    LET side(bound) == IF slope.n = bound * slope.d THEN slope.err
                       ELSE IF RLt(Whole(bound), slope) THEN 1 ELSE 0 - 1
    IN  IF side(200) >= 0 THEN "TRENDING_DEM"
        ELSE IF side(0 - 200) <= 0 THEN "TRENDING_REP"
        ELSE "STABLE"

\* slope > 2, slope < -2, else STABLE (margin points per cycle, in
\* hundredths); side(bound) is the side of the bound the computed slope is on
TrajectoryDirection(slope) ==
    LET side(bound) == IF slope.n = bound * slope.d THEN slope.err
                       ELSE IF RLt(Whole(bound), slope) THEN 1 ELSE 0 - 1
    IN  IF side(200) > 0 THEN "TRENDING_DEM"
        ELSE IF side(0 - 200) < 0 THEN "TRENDING_REP"
        ELSE "STABLE"

\* np.polyfit(x, margins, 1)[0] for x = (year - first year) / 4, for a history
\* with at least two different years: the slopes the solve can return.  exact
\* is the least-squares slope.  Where it is one of the bounds 2 and -2 the
\* code compares with, the computed number can be the bound itself or a
\* neighbour of it on either side, and the libraries of the build decide
\* which; anywhere else the exact slope is farther from both bounds than the
\* error of the solve, and the side changes no comparison
Trajectory(hs) ==
    LET n   == Len(hs)
        X   == [i \in 1..n |-> hs[i].year - hs[1].year]
        sx  == SumSeq(X)
        sy  == SumSeq([i \in 1..n |-> MarginOf(hs[i])])
        sxy == SumSeq([i \in 1..n |-> X[i] * MarginOf(hs[i])])
        sxx == SumSeq([i \in 1..n |-> X[i] * X[i]])
        errs(exact) == IF exact.n = 200 * exact.d \/ exact.n = (0 - 200) * exact.d
                       THEN {0 - 1, 0, 1} ELSE {0}
    IN  UNION {{[n |-> exact.n, d |-> exact.d, err |-> e] : e \in errs(exact)} :
                  exact \in {Rat(4 * (n * sxy - sx * sy), n * sxx - sx * sx)}}

Median(q) ==
    LET n == Len(q)
        s == SortNumbers(q)
    IN  IF n % 2 = 1 THEN Whole(s[(n + 1) \div 2])
        ELSE Rat(s[n \div 2] + s[n \div 2 + 1], 2)

\* the swing cell of a history row: <<>> when the row's file has no swing
\* column, <<v>> otherwise
SwingCell(row) == IF "swing" \in DOMAIN row THEN row.swing ELSE <<>>

\* |swing| after fillna(0)
SwingMagnitudeOf(row) == IF SwingCell(row) = <<>> THEN 0 ELSE Abs(SwingCell(row)[1])

\* calculate_county_trends: the records the call can return, one for each
\* slope the solve can return
CalculateCountyTrends(history) ==
    LET hs      == SortByYear(history)
        n       == Len(hs)
        base    == [years_with_data |-> n, first_year |-> hs[1].year,
                    last_year |-> hs[n].year]
        margins == [i \in 1..n |-> MarginOf(hs[i])]
        winners == [i \in 1..n |-> WinnerOf(hs[i])]
        flips   == Cardinality({i \in 2..n : winners[i] # winners[i - 1]})
        sum     == SumSeq(margins)
        sumsq   == SumSeq([i \in 1..n |-> margins[i] * margins[i]])
        dem     == Cardinality({i \in 1..n : winners[i] = "DEMOCRAT"})
        rep     == Cardinality({i \in 1..n : winners[i] = "REPUBLICAN"})
        close   == Cardinality({i \in 1..n : Abs(margins[i]) < 500})
        hasSwing == \E i \in 1..n : SwingCell(hs[i]) # <<>>
        swings  == [i \in 1..n |-> SwingMagnitudeOf(hs[i])]
        m(slope) == [total_flips |-> flips,
                    flip_rate |-> IF n > 1 THEN Rat(flips, n - 1) ELSE Whole(0),
                    avg_margin |-> Rat(sum, n),
                    median_margin |-> Median(margins),
                    margin_std_sq |-> Rat(n * sumsq - sum * sum, n * n),
                    dem_win_pct |-> IF dem + rep > 0 THEN Rat(100 * dem, dem + rep) ELSE Whole(0),
                    rep_win_pct |-> IF dem + rep > 0 THEN Rat(100 * rep, dem + rep) ELSE Whole(0),
                    trajectory |-> slope,
                    trajectory_direction |-> TrajectoryDirection(slope),
                    avg_swing_magnitude |-> IF hasSwing THEN Rat(SumSeq(swings), n)
                                            ELSE Whole(0),
                    max_swing |-> IF hasSwing
                                  THEN Whole(CHOOSE v \in {swings[i] : i \in 1..n} :
                                                 \A i \in 1..n : swings[i] <= v)
                                  ELSE Whole(0),
                    close_election_rate |-> Rat(100 * close, n),
                    avg_competitiveness |-> Rat(SumSeq([i \in 1..n |-> Abs(margins[i])]), n)]
    IN  IF InsufficientData(n)
        THEN {base @@ [classification |-> "INSUFFICIENT_DATA"]}
        ELSE {base @@ r @@ [classification |-> ClassifyCounty(r),
                            bellwether_score |-> CalculateBellwetherScore(hs)] :
                 r \in {m(slope) : slope \in Trajectory(hs)}}

\* the cycles a history row can belong to; 1996 is not in NATIONAL_WINNERS
HistoryYears == {1996, 2000, 2004, 2008}

\* (margin, winner) of a county in one cycle of the merged map data: decided
\* cycles, an exact tie (margin 0, REPUBLICAN by the tie-break), and a county
\* that the boundary set has but the election table lacks (both cells null)
CycleResults ==
    {[margin |-> Num(-2000), winner |-> "REPUBLICAN"],
     [margin |-> Num(-200), winner |-> "REPUBLICAN"],
     [margin |-> Num(0), winner |-> "REPUBLICAN"],
     [margin |-> Num(200), winner |-> "DEMOCRAT"],
     [margin |-> Num(400), winner |-> "DEMOCRAT"],
     [margin |-> NaN, winner |-> NullWinner]}

\* one more row of the county arrives, for a cycle not yet in the table
AddCycleRow ==
    /\ stage = "trends"
    /\ metrics = <<>> /\ score = <<>>
    /\ Len(county_history) < MaxCycles
    /\ \E y \in HistoryYears, c \in CycleResults :
          /\ \A i \in 1..Len(county_history) : county_history[i].year # y
          /\ county_history' = Append(county_history,
                                      [year |-> y, margin |-> c.margin, winner |-> c.winner])
    /\ UNCHANGED <<stage, metrics, score>>
    /\ UNCHANGED exceptTrend

\* calculate_all_trends calls calculate_county_trends on the county's group
CallCalculateCountyTrends ==
    /\ stage = "trends"
    /\ metrics = <<>> /\ score = <<>>
    /\ Len(county_history) >= 1
    /\ \E m \in CalculateCountyTrends(county_history) : metrics' = <<m>>
    /\ UNCHANGED <<stage, county_history, score>>
    /\ UNCHANGED exceptTrend

\* calculate_bellwether_score called on the table as it is
CallCalculateBellwetherScore ==
    /\ stage = "trends"
    /\ metrics = <<>> /\ score = <<>>
    /\ score' = <<CalculateBellwetherScore(county_history)>>
    /\ UNCHANGED <<stage, county_history, metrics>>
    /\ UNCHANGED exceptTrend

\* the values of the four metrics classify_county is tried on
GridMargins == {-2000, -1501, -1500, -501, -500, -1, 0, 1, 300, 500, 501, 1500, 1501, 2000}
GridStds == {500, 799, 800, 900}
GridFlipRates == {Rat(0, 1), Rat(1, 5), Rat(7, 20), Rat(2, 5), Rat(1, 2), Rat(1, 1)}
GridCloseRates == {0, 60, 61, 100}
GridFlips == {0, 3}

CallClassifyCounty ==
    /\ stage = "classify"
    /\ classification = None
    /\ classification' = ClassifyCounty(classifyIn)
    /\ UNCHANGED <<stage, classifyIn>>
    /\ UNCHANGED exceptClass

(***************************************************************************)
(* Cycle aggregation on a whole table: aggregate_by_county_party followed  *)
(* by create_wide_format (process_year, 02_clean_elections.py).  Tables    *)
(* are sequences of rows in the order pandas leaves them: groupby and      *)
(* pivot_table sort by their keys.                                         *)
(***************************************************************************)
MaxLong == 3

\* the strings of the tables, in Python's string order
StringOrder ==
    <<"01001", "01003", "ALABAMA", "AUTAUGA", "AUTAUGA COUNTY", "BALDWIN",
      "BEDFORD CITY", "BEDFORD COUNTY", "Bedford", "DEMOCRAT", "FAIRFAX", "GREEN",
      "LIBERTARIAN", "MISSOURI", "OTHER", "REPUBLICAN", "Republican", "SAINT LOUIS",
      "ST. LOUIS", "ST. LOUIS CITY", "VIRGINIA", "Virginia", "WRITE-IN">>

StrRank(str) == CHOOSE i \in 1..Len(StringOrder) : StringOrder[i] = str

\* tuple a sorts before tuple b
LexLt(a, b) ==
    \E i \in 1..Len(a) : a[i] < b[i] /\ \A j \in 1..(i - 1) : a[j] = b[j]

\* the second components of a set of <<rank tuple, value>> pairs, by ascending rank
RECURSIVE SortByRank(_)
SortByRank(S) ==
    IF S = {} THEN <<>>
    ELSE LET m == CHOOSE x \in S : \A y \in S \ {x} : LexLt(x[1], y[1])
         IN  <<m[2]>> \o SortByRank(S \ {m})

\* df[df['year'] == year]
YearRows(df, year) == SelectSeq(df, LAMBDA r : r.year = year)

\* the grouping key of aggregate_by_county_party (state_po goes with state)
AggKey(r) == <<r.fips, r.state, r.county_name, r.party>>

\* 'totalvotes': 'first' within a group
FirstTotal(rows, k) ==
    LET idx == {i \in 1..Len(rows) : AggKey(rows[i]) = k}
    IN  rows[CHOOSE i \in idx : \A j \in idx : i <= j].totalvotes

\* 'candidatevotes': 'sum' within a group
SumVotes(rows, k) ==
    SumSeq([i \in 1..Len(rows) |-> IF AggKey(rows[i]) = k THEN rows[i].candidatevotes ELSE 0])

\* aggregate_by_county_party
AggregateByCountyParty(df, year) ==
    LET rows == YearRows(df, year)
        keys == {AggKey(rows[i]) : i \in 1..Len(rows)}
        byKey == SortByRank({<<[j \in 1..4 |-> StrRank(k[j])], k>> : k \in keys})
    IN  [n \in 1..Len(byKey) |->
            LET k == byKey[n]
            IN  [fips |-> k[1], state |-> k[2], county |-> k[3], party |-> k[4],
                 votes |-> SumVotes(rows, k), total_votes |-> FirstTotal(rows, k)]]

\* the index of the pivot: one output row per distinct value of it
PivotIndex(r) == <<r.fips, r.state, r.county, r.total_votes>>

\* one cell of the pivot: the mean of the votes with that index and party,
\* fill_value where there is none
PivotCell(long, ix, party) ==
    LET idx == {i \in 1..Len(long) : PivotIndex(long[i]) = ix /\ long[i].party = party}
    IN  IF idx = {} THEN 0
        ELSE SumSeq([i \in 1..Len(long) |-> IF i \in idx THEN long[i].votes ELSE 0])
                 \div Cardinality(idx)

\* create_wide_format on a long table
CreateWideTable(long) ==
    LET ixs     == {PivotIndex(long[i]) : i \in 1..Len(long)}
        byIx    == SortByRank({<<<<StrRank(x[1]), StrRank(x[2]), StrRank(x[3]), x[4]>>, x>> : x \in ixs})
        columns == {long[i].party : i \in 1..Len(long)} \cup {"DEMOCRAT", "REPUBLICAN"}
    IN  [n \in 1..Len(byIx) |->
            LET ix    == byIx[n]
                cells == [p \in columns |-> PivotCell(long, ix, p)]
            IN  WideRow(cells["DEMOCRAT"], cells["REPUBLICAN"])
                @@ [fips |-> ix[1], state |-> ix[2], county |-> ix[3], total_votes |-> ix[4]]
                @@ cells]

\* the cycles of the cleaned table, and the rows it can hold: county 01001 under
\* two spellings and with two cycle totals, county 01003, and a row of 2016
CycleYears == {2016, 2020}
CleanedRows ==
    {[fips |-> "01001", state |-> "ALABAMA", county_name |-> nt[1], party |-> p,
      candidatevotes |-> v, totalvotes |-> nt[2], year |-> 2020] :
        nt \in {<<"AUTAUGA", 10>>, <<"AUTAUGA", 11>>, <<"AUTAUGA COUNTY", 10>>},
        p \in {"DEMOCRAT", "REPUBLICAN", "GREEN"}, v \in {1, 2}}
    \cup
    {[fips |-> "01003", state |-> "ALABAMA", county_name |-> "BALDWIN", party |-> p,
      candidatevotes |-> v, totalvotes |-> 20, year |-> 2020] :
        p \in {"DEMOCRAT", "REPUBLICAN", "GREEN"}, v \in {1, 2}}
    \cup
    {[fips |-> "01003", state |-> "ALABAMA", county_name |-> "BALDWIN", party |-> "DEMOCRAT",
      candidatevotes |-> 2, totalvotes |-> 20, year |-> 2016]}

\* process_year for a cycle that has rows in the table
ProcessYear ==
    /\ stage = "process_year"
    /\ cycle = <<>>
    /\ \E year \in CycleYears :
          /\ YearRows(cleaned, year) # <<>>
          /\ cycle' = <<year>>
          /\ agg_df' = AggregateByCountyParty(cleaned, year)
          /\ wide_df' = CreateWideTable(AggregateByCountyParty(cleaned, year))
    /\ UNCHANGED <<stage, cleaned>>
    /\ UNCHANGED exceptPivot

(***************************************************************************)
(* Party names: standardize_party_name (02_clean_elections.py).  A label   *)
(* is the sequence of its characters.                                      *)
(***************************************************************************)
MaxLabelLen == 2

LabelDemocrat == <<"D", "E", "M", "O", "C", "R", "A", "T">>
LabelRepublican == <<"R", "E", "P", "U", "B", "L", "I", "C", "A", "N">>
LabelLibertarian == <<"L", "I", "B", "E", "R", "T", "A", "R", "I", "A", "N">>
LabelGreen == <<"G", "R", "E", "E", "N">>
LabelIndependent == <<"I", "N", "D", "E", "P", "E", "N", "D", "E", "N", "T">>
LabelOther == <<"O", "T", "H", "E", "R">>

\* PARTY_MAPPING: <<label, canonical party>>
PartyMapping ==
    {<<<<"D", "E", "M", "O", "C", "R", "A", "T">>, LabelDemocrat>>,
     <<<<"D", "E", "M", "O", "C", "R", "A", "T", "I", "C">>, LabelDemocrat>>,
     <<<<"D", "E", "M", "O", "C", "R", "A", "T", "I", "C", "-", "F", "A", "R", "M", "E", "R", "-", "L", "A", "B", "O", "R">>, LabelDemocrat>>,
     <<<<"D", "E", "M">>, LabelDemocrat>>,
     <<<<"D">>, LabelDemocrat>>,
     <<<<"R", "E", "P", "U", "B", "L", "I", "C", "A", "N">>, LabelRepublican>>,
     <<<<"R", "E", "P">>, LabelRepublican>>,
     <<<<"R">>, LabelRepublican>>,
     <<<<"L", "I", "B", "E", "R", "T", "A", "R", "I", "A", "N">>, LabelLibertarian>>,
     <<<<"L", "I", "B">>, LabelLibertarian>>,
     <<<<"G", "R", "E", "E", "N">>, LabelGreen>>,
     <<<<"G", "R", "E", "E", "N", " ", "P", "A", "R", "T", "Y">>, LabelGreen>>,
     <<<<"I", "N", "D", "E", "P", "E", "N", "D", "E", "N", "T">>, LabelIndependent>>,
     <<<<"I", "N", "D">>, LabelIndependent>>,
     <<<<"O", "T", "H", "E", "R">>, LabelOther>>,
     <<<<"W", "R", "I", "T", "E", "-", "I", "N">>, LabelOther>>,
     <<<<"W", "R", "I", "T", "E", "I", "N">>, LabelOther>>}

LowerCase ==
    <<"a", "b", "c", "d", "e", "f", "g", "h", "i", "j", "k", "l", "m",
      "n", "o", "p", "q", "r", "s", "t", "u", "v", "w", "x", "y", "z">>
UpperCase ==
    <<"A", "B", "C", "D", "E", "F", "G", "H", "I", "J", "K", "L", "M",
      "N", "O", "P", "Q", "R", "S", "T", "U", "V", "W", "X", "Y", "Z">>
Whitespace == {" ", "\t", "\n"}

\* str.upper() and str.lower()
UpperChar(c) ==
    IF \E i \in 1..26 : LowerCase[i] = c
    THEN UpperCase[CHOOSE i \in 1..26 : LowerCase[i] = c] ELSE c
LowerChar(c) ==
    IF \E i \in 1..26 : UpperCase[i] = c
    THEN LowerCase[CHOOSE i \in 1..26 : UpperCase[i] = c] ELSE c
Upper(str) == [i \in 1..Len(str) |-> UpperChar(str[i])]
Lower(str) == [i \in 1..Len(str) |-> LowerChar(str[i])]

\* str.strip()
RECURSIVE LStrip(_)
LStrip(str) ==
    IF str # <<>> /\ Head(str) \in Whitespace THEN LStrip(Tail(str)) ELSE str
RECURSIVE RStrip(_)
RStrip(str) ==
    IF str # <<>> /\ str[Len(str)] \in Whitespace
    THEN RStrip(SubSeq(str, 1, Len(str) - 1)) ELSE str
Strip(str) == RStrip(LStrip(str))

\* a string cell, and the null cell
Text(str) == [isna |-> FALSE, text |-> str]
Null == [isna |-> TRUE, text |-> <<>>]

StandardizePartyNameNoStrip(p) ==
    IF p.isna THEN LabelOther
    ELSE LET party_upper == Upper(p.text)
         IN  IF \E e \in PartyMapping : e[1] = party_upper
             THEN (CHOOSE e \in PartyMapping : e[1] = party_upper)[2]
             ELSE LabelOther

\* standardize_party_name
StandardizePartyName(p) ==
    IF p.isna THEN LabelOther
    ELSE LET party_upper == Strip(Upper(p.text))
         IN  IF \E e \in PartyMapping : e[1] = party_upper
             THEN (CHOOSE e \in PartyMapping : e[1] = party_upper)[2]
             ELSE LabelOther

\* raw labels: null; every label of the table as it is, in lower case, with
\* its first letter only in upper case, and with blanks around it; labels
\* the table does not have; and every string of up to MaxLabelLen characters
\* out of d, D, r and the blank
TableLabels == {e[1] : e \in PartyMapping}
Capitalized(str) == [i \in 1..Len(str) |-> IF i = 1 THEN str[i] ELSE LowerChar(str[i])]
UnknownLabels ==
    {<<"D", "E", "M", "O", "C", "R", "A", "T", "S">>, <<"D", " ", "R">>,
     <<"W", "R", "I", "T", "E", " ", "I", "N">>, <<"G", "R", "E", "E", "N", "S">>,
     <<"C", "O", "N", "S", "T", "I", "T", "U", "T", "I", "O", "N">>, <<"5">>}
PartyLabels ==
    {Null}
    \cup {Text(l) : l \in TableLabels}
    \cup {Text(Lower(l)) : l \in TableLabels}
    \cup {Text(Capitalized(l)) : l \in TableLabels}
    \cup {Text(<<" ">> \o Lower(l) \o <<"\t", "\n">>) : l \in TableLabels}
    \cup {Text(l) : l \in UnknownLabels}
    \cup {Text(l) : l \in SeqsUpTo({"d", "D", "r", " "}, MaxLabelLen)}

\* df['party'].apply(standardize_party_name) on one cell
CallStandardizePartyName ==
    /\ stage = "party"
    /\ standardized = <<>>
    /\ standardized' = <<StandardizePartyName(raw_party)>>
    /\ UNCHANGED <<stage, raw_party>>
    /\ UNCHANGED exceptParty

\* standardize_party_name on the value it returned
StandardizeAgain ==
    /\ stage = "party"
    /\ Len(standardized) = 1
    /\ standardized' = Append(standardized, StandardizePartyName(Text(standardized[1])))
    /\ UNCHANGED <<stage, raw_party>>
    /\ UNCHANGED exceptParty

(***************************************************************************)
(* County identifiers: clean_fips_codes (02_clean_elections.py).  A cell   *)
(* of county_fips is null or the text astype(str) gives for it, as a       *)
(* sequence of characters: "1001.0" for the float 1001.0.                  *)
(***************************************************************************)
MaxIdLen == 6

Digits == {"0", "1", "2", "3", "4", "5", "6", "7", "8", "9"}

\* astype(str): the null cell becomes the text nan
AsStr(cell) == IF cell.isna THEN <<"n", "a", "n">> ELSE cell.text

\* str.replace('.0', '', regex=False): every occurrence, left to right
RECURSIVE ReplaceDotZero(_)
ReplaceDotZero(str) ==
    IF str = <<>> THEN <<>>
    ELSE IF Len(str) >= 2 /\ str[1] = "." /\ str[2] = "0"
    THEN ReplaceDotZero(SubSeq(str, 3, Len(str)))
    ELSE <<Head(str)>> \o ReplaceDotZero(Tail(str))

\* str.zfill(width): zeros on the left, after a leading sign (a text with a
\* sign fails the match wherever the zeros go)
ZFill(str, width) ==
    IF Len(str) >= width THEN str
    ELSE LET zeros == [i \in 1..(width - Len(str)) |-> "0"]
         IN  IF str # <<>> /\ Head(str) \in {"+", "-"}
             THEN <<Head(str)>> \o zeros \o Tail(str)
             ELSE zeros \o str

\* str.match(r'^\d{5}$'): five digits, then the end or a last newline
MatchFiveDigits(str) ==
    /\ Len(str) \in {5, 6}
    /\ \A i \in 1..5 : str[i] \in Digits
    /\ Len(str) = 6 => str[6] = "\n"

\* the fips column of one row
FipsOf(cell) == ZFill(ReplaceDotZero(AsStr(cell)), 5)

\* clean_fips_codes
CleanFipsCodes(df) ==
    LET withFips == [i \in 1..Len(df) |->
                        [county_fips |-> df[i].county_fips,
                         candidatevotes |-> df[i].candidatevotes,
                         fips |-> FipsOf(df[i].county_fips)]]
    IN  SelectSeq(withFips, LAMBDA r : MatchFiveDigits(r.fips))

\* cells of county_fips: null, and every text of up to n characters out
\* of two digits, the point, a letter and the minus sign
IdCells(n) == {Null} \cup {Text(t) : t \in SeqsUpTo({"0", "7", ".", "x", "-"}, n)}

\* raw tables: one row with any cell, alone or followed by the row of county 1003.0
RawTables(n) ==
    {<<[county_fips |-> c, candidatevotes |-> 5]>> : c \in IdCells(n)}
    \cup {<<[county_fips |-> c, candidatevotes |-> 5],
            [county_fips |-> Text(<<"1", "0", "0", "3", ".", "0">>), candidatevotes |-> 8]>> :
             c \in IdCells(n)}

CallCleanFipsCodes ==
    /\ stage = "fips"
    /\ fips_df = <<>>
    /\ fips_df' = <<CleanFipsCodes(raw_df)>>
    /\ UNCHANGED <<stage, raw_df>>
    /\ UNCHANGED exceptFips

(***************************************************************************)
(* Batch drivers: main() of 02_clean_elections.py, 04_calculate_swings.py  *)
(* and 05_merge_data.py.  A unit of work is a cycle (02, 05) or a pair of  *)
(* cycles (04); which units raise is given by the files on disk and is an  *)
(* input here.                                                             *)
(***************************************************************************)
\* ELECTION_YEARS
ElectionYears == <<2000, 2004, 2008, 2012, 2016, 2020, 2024>>

\* get_adjacent_election_pairs
AdjacentElectionPairs ==
    [i \in 1..(Len(ElectionYears) - 1) |-> <<ElectionYears[i], ElectionYears[i + 1]>>]

Drivers == {"02_clean_elections", "04_calculate_swings", "05_merge_data"}
Modes == {"single", "all", "default"}

Range(q) == {q[i] : i \in 1..Len(q)}

\* the units of an all-items run
AllUnits(d) == IF d = "04_calculate_swings" THEN AdjacentElectionPairs ELSE ElectionYears

\* what --year / --year1 --year2 may name: a unit, or something main() rejects
SingleArgs(d) ==
    IF d = "04_calculate_swings"
    THEN Range(AdjacentElectionPairs) \cup {<<2000, 2008>>, <<2004, 2000>>}
    ELSE Range(ElectionYears) \cup {1996}

\* the argument check of single mode
ArgRejected(d, a) ==
    IF d = "04_calculate_swings" THEN a[1] >= a[2] ELSE a \notin Range(ElectionYears)

\* the units main() goes through
UnitsOfRun(d, md, a) ==
    IF md = "single" THEN <<a>>
    ELSE IF md = "all" THEN AllUnits(d)
    ELSE <<AllUnits(d)[Len(AllUnits(d))]>>

UnitFailureAbortsAlways(d, md) == d = "04_calculate_swings"

\* whether an exception of a unit leaves the loop of main(): process_year (02,
\* 05) catches it and returns a failed result; process_swing_pair re-raises, and
\* only the loop of --all catches it
UnitFailureAborts(d, md) == d = "04_calculate_swings" /\ md # "all"

\* the value main() returns after the last unit
ExitCodeAfterUnits(d, res) ==
    IF d = "04_calculate_swings" THEN 0
    ELSE IF \A i \in 1..Len(res) : res[i].success THEN 0 ELSE 1

\* main() up to the first unit
MainStart ==
    /\ stage = "batch"
    /\ pc = "start"
    /\ IF ~setup_ok \/ (mode = "single" /\ ArgRejected(driver, arg[1]))
       THEN /\ exit_code' = <<1>>
            /\ pc' = "done"
            /\ todo' = <<>>
       ELSE /\ todo' = UnitsOfRun(driver, mode, IF mode = "single" THEN arg[1] ELSE 0)
            /\ pc' = "units"
            /\ exit_code' = <<>>
    /\ UNCHANGED <<stage, driver, mode, arg, setup_ok, failing, attempts, results, logged, written>>
    /\ UNCHANGED exceptBatch

\* one unit: process_year, or process_swing_pair
ProcessUnit ==
    /\ stage = "batch"
    /\ pc = "units"
    /\ todo # <<>>
    /\ LET unit == Head(todo)
       IN  /\ attempts' = Append(attempts, unit)
           /\ IF unit \in failing
              THEN /\ logged' = logged \cup {unit}
                   /\ written' = written
                   /\ IF UnitFailureAborts(driver, mode)
                      THEN /\ exit_code' = <<1>>
                           /\ pc' = "done"
                           /\ todo' = <<>>
                           /\ results' = results
                      ELSE /\ exit_code' = exit_code
                           /\ pc' = pc
                           /\ todo' = Tail(todo)
                           /\ results' = IF driver = "04_calculate_swings" THEN results
                                         ELSE Append(results, [unit |-> unit, success |-> FALSE])
              ELSE /\ logged' = logged
                   /\ written' = written \cup {unit}
                   /\ results' = Append(results, [unit |-> unit, success |-> TRUE])
                   /\ todo' = Tail(todo)
                   /\ UNCHANGED <<pc, exit_code>>
    /\ UNCHANGED <<stage, driver, mode, arg, setup_ok, failing>>
    /\ UNCHANGED exceptBatch

\* main() after the last unit: the summary and the return value
MainReturn ==
    /\ stage = "batch"
    /\ pc = "units"
    /\ todo = <<>>
    /\ exit_code' = <<ExitCodeAfterUnits(driver, results)>>
    /\ pc' = "done"
    /\ UNCHANGED <<stage, driver, mode, arg, setup_ok, failing, todo, attempts, results, logged, written>>
    /\ UNCHANGED exceptBatch

(***************************************************************************)
(* County names as match keys: normalize_county_name of fix_2024_fips.py   *)
(* and normalize_county_name of utils/county_matcher.py.  A name is the    *)
(* sequence of its characters.                                             *)
(***************************************************************************)
\* str.startswith(pat, i), pat in str, str.endswith(suffix)
HasAt(str, i, pat) ==
    /\ i >= 1
    /\ i + Len(pat) - 1 <= Len(str)
    /\ SubSeq(str, i, i + Len(pat) - 1) = pat
Contains(str, pat) == \E i \in 1..(Len(str) + 1) : HasAt(str, i, pat)
EndsWith(str, suffix) == HasAt(str, Len(str) - Len(suffix) + 1, suffix)

\* str.replace(old, new): every occurrence, left to right
RECURSIVE Replace(_, _, _)
Replace(str, old, new) ==
    IF str = <<>> THEN <<>>
    ELSE IF HasAt(str, 1, old)
    THEN new \o Replace(SubSeq(str, Len(old) + 1, Len(str)), old, new)
    ELSE <<Head(str)>> \o Replace(Tail(str), old, new)

\* the number of characters of S that follow each other from position i on
RECURSIVE RunLen(_, _, _)
RunLen(str, i, S) ==
    IF i <= Len(str) /\ str[i] \in S THEN 1 + RunLen(str, i + 1, S) ELSE 0

District == <<"D", "I", "S", "T", "R", "I", "C", "T">>

\* re.sub(r'DISTRICT\s+0(\d+)', r'DISTRICT \1', name)
RECURSIVE SubDistrict(_)
SubDistrict(str) ==
    IF str = <<>> THEN <<>>
    ELSE LET ws == RunLen(str, Len(District) + 1, Whitespace)
             zero == Len(District) + 1 + ws
             ds == RunLen(str, zero + 1, Digits)
         IN  IF /\ HasAt(str, 1, District)
                /\ ws >= 1
                /\ zero <= Len(str) /\ str[zero] = "0"
                /\ ds >= 1
             THEN District \o <<" ">> \o SubSeq(str, zero + 1, zero + ds)
                    \o SubDistrict(SubSeq(str, zero + ds + 1, Len(str)))
             ELSE <<Head(str)>> \o SubDistrict(Tail(str))

\* re.sub(r'\s+', ' ', name)
RECURSIVE CollapseSpaces(_)
CollapseSpaces(str) ==
    IF str = <<>> THEN <<>>
    ELSE IF Head(str) \in Whitespace
    THEN <<" ">> \o CollapseSpaces(SubSeq(str, RunLen(str, 1, Whitespace) + 1, Len(str)))
    ELSE <<Head(str)>> \o CollapseSpaces(Tail(str))

\* spacing_fixes, in the order of the dict: <<spaced, unspaced>>
SpacingFixes ==
    <<<<<<"D", "E", " ", "W", "I", "T", "T">>, <<"D", "E", "W", "I", "T", "T">>>>,
      <<<<"D", "E", " ", "K", "A", "L", "B">>, <<"D", "E", "K", "A", "L", "B">>>>,
      <<<<"J", "O", " ", "D", "A", "V", "I", "E", "S", "S">>, <<"J", "O", "D", "A", "V", "I", "E", "S", "S">>>>,
      <<<<"L", "A", " ", "S", "A", "L", "L", "E">>, <<"L", "A", "S", "A", "L", "L", "E">>>>,
      <<<<"D", "U", " ", "P", "A", "G", "E">>, <<"D", "U", "P", "A", "G", "E">>>>>>

RECURSIVE ApplySpacingFixes(_, _)
ApplySpacingFixes(name, fixes) ==
    IF fixes = <<>> THEN name
    ELSE ApplySpacingFixes(Replace(name, fixes[1][1], fixes[1][2]), Tail(fixes))

\* for suffix in suffixes: if name.endswith(suffix): name = name[:-len(suffix)].strip()
RECURSIVE StripSuffixes(_, _)
StripSuffixes(name, suffixes) ==
    IF suffixes = <<>> THEN name
    ELSE StripSuffixes(IF EndsWith(name, Head(suffixes))
                       THEN Strip(SubSeq(name, 1, Len(name) - Len(Head(suffixes))))
                       ELSE name,
                       Tail(suffixes))

\* preserve_city_county
PreserveCityCounty ==
    <<<<"B", "A", "L", "T", "I", "M", "O", "R", "E">>,
      <<"S", "T", " ", "L", "O", "U", "I", "S">>,
      <<"F", "A", "I", "R", "F", "A", "X">>,
      <<"F", "R", "A", "N", "K", "L", "I", "N">>,
      <<"R", "I", "C", "H", "M", "O", "N", "D">>,
      <<"R", "O", "A", "N", "O", "K", "E">>>>

\* the suffixes removed from a name on the preserve-list, and from any other name
PreservedSuffixes ==
    <<<<" ", "P", "A", "R", "I", "S", "H">>,
      <<" ", "B", "O", "R", "O", "U", "G", "H">>,
      <<" ", "C", "E", "N", "S", "U", "S", " ", "A", "R", "E", "A">>>>
AllSuffixes ==
    <<<<" ", "C", "O", "U", "N", "T", "Y">>,
      <<" ", "P", "A", "R", "I", "S", "H">>,
      <<" ", "B", "O", "R", "O", "U", "G", "H">>,
      <<" ", "C", "E", "N", "S", "U", "S", " ", "A", "R", "E", "A">>,
      <<" ", "C", "I", "T", "Y">>>>

\* normalize_county_name (fix_2024_fips.py)
NormalizeCountyName(cell) ==
    IF cell.isna THEN <<>>
    ELSE LET upper == Strip(Upper(cell.text))
             st == Replace(Replace(upper, <<"S", "T", ".">>, <<"S", "T">>), <<"S", "T", "E", ".">>, <<"S", "T", "E">>)
             saint == Replace(st, <<"S", "A", "I", "N", "T", " ">>, <<"S", "T", " ">>)
             district == SubDistrict(saint)
             spaced == CollapseSpaces(ApplySpacingFixes(district, SpacingFixes))
             should_preserve ==
                 \E i \in 1..Len(PreserveCityCounty) : Contains(spaced, PreserveCityCounty[i])
         IN  IF should_preserve
             THEN StripSuffixes(spaced, PreservedSuffixes)
             ELSE StripSuffixes(spaced, AllSuffixes)

\* suffixes of normalize_county_name (utils/county_matcher.py), in its order
MatcherSuffixes ==
    <<<<" ", "C", "O", "U", "N", "T", "Y">>,
      <<" ", "P", "A", "R", "I", "S", "H">>,
      <<" ", "B", "O", "R", "O", "U", "G", "H">>,
      <<" ", "C", "E", "N", "S", "U", "S", " ", "A", "R", "E", "A">>,
      <<" ", "M", "U", "N", "I", "C", "I", "P", "A", "L", "I", "T", "Y">>,
      <<" ", "C", "I", "T", "Y">>,
      <<" ", "C", "I", "T", "Y", " ", "A", "N", "D", " ", "B", "O", "R", "O", "U", "G", "H">>>>

\* normalize_county_name (utils/county_matcher.py): the suffixes, then
\* re.sub(r'[^A-Z0-9\s]', '', name) and ' '.join(name.split())
MatcherNormalizeCountyName(cell) ==
    IF cell.isna THEN <<>>
    ELSE LET upper == Strip(Upper(cell.text))
             stripped == StripSuffixes(upper, MatcherSuffixes)
             kept == SelectSeq(stripped, LAMBDA c :
                         \/ \E i \in 1..26 : UpperCase[i] = c
                         \/ c \in Digits
                         \/ c \in Whitespace)
         IN  CollapseSpaces(Strip(kept))

\* county names as the tables spell them
CountyNames ==
    {<<"S", "T", ".", " ", "L", "O", "U", "I", "S", " ", "C", "O", "U", "N", "T", "Y">>,
     <<"S", "A", "I", "N", "T", " ", "L", "O", "U", "I", "S">>,
     <<"S", "T", " ", "L", "O", "U", "I", "S">>,
     <<"S", "t", ".", " ", "L", "o", "u", "i", "s", " ", "C", "i", "t", "y">>,
     <<"S", "T", " ", "L", "O", "U", "I", "S", " ", "C", "I", "T", "Y">>,
     <<"S", "T", " ", "L", "O", "U", "I", "S", " ", "C", "O", "U", "N", "T", "Y">>,
     <<"S", "A", "I", "N", "T", " ", "L", "O", "U", "I", "S", " ", "C", "O", "U", "N", "T", "Y">>,
     <<"S", "T", ".", " ", "C", "L", "A", "I", "R">>,
     <<"S", "A", "I", "N", "T", " ", "C", "L", "A", "I", "R">>,
     <<"S", "T", " ", "C", "L", "A", "I", "R">>,
     <<"S", "t", ".", " ", "C", "l", "a", "i", "r", " ", "C", "o", "u", "n", "t", "y">>,
     <<"S", "T", "E", ".", " ", "G", "E", "N", "E", "V", "I", "E", "V", "E">>,
     <<"S", "T", "E", " ", "G", "E", "N", "E", "V", "I", "E", "V", "E">>,
     <<"B", "A", "L", "T", "I", "M", "O", "R", "E", " ", "C", "I", "T", "Y">>,
     <<"B", "A", "L", "T", "I", "M", "O", "R", "E", " ", "C", "O", "U", "N", "T", "Y">>,
     <<"B", "A", "L", "T", "I", "M", "O", "R", "E">>,
     <<"F", "A", "I", "R", "F", "A", "X", " ", "C", "I", "T", "Y">>,
     <<"F", "A", "I", "R", "F", "A", "X", " ", "C", "O", "U", "N", "T", "Y">>,
     <<"F", "R", "A", "N", "K", "L", "I", "N", " ", "C", "I", "T", "Y">>,
     <<"F", "R", "A", "N", "K", "L", "I", "N", " ", "C", "O", "U", "N", "T", "Y">>,
     <<"R", "I", "C", "H", "M", "O", "N", "D", " ", "C", "I", "T", "Y">>,
     <<"R", "I", "C", "H", "M", "O", "N", "D", " ", "C", "O", "U", "N", "T", "Y">>,
     <<"R", "O", "A", "N", "O", "K", "E", " ", "C", "I", "T", "Y">>,
     <<"R", "O", "A", "N", "O", "K", "E", " ", "C", "O", "U", "N", "T", "Y">>,
     <<"B", "E", "D", "F", "O", "R", "D", " ", "C", "I", "T", "Y">>,
     <<"B", "E", "D", "F", "O", "R", "D", " ", "C", "O", "U", "N", "T", "Y">>,
     <<"B", "E", "D", "F", "O", "R", "D">>,
     <<"C", "A", "R", "S", "O", "N", " ", "C", "I", "T", "Y">>,
     <<"J", "A", "M", "E", "S", " ", "C", "I", "T", "Y", " ", "C", "O", "U", "N", "T", "Y">>,
     <<"D", "E", " ", "W", "I", "T", "T">>,
     <<"D", "E", "W", "I", "T", "T", " ", "C", "O", "U", "N", "T", "Y">>,
     <<"L", "A", " ", "S", "A", "L", "L", "E", " ", "P", "A", "R", "I", "S", "H">>,
     <<"D", "I", "S", "T", "R", "I", "C", "T", " ", "0", "1">>,
     <<"D", "I", "S", "T", "R", "I", "C", "T", " ", " ", "0", "1", "2">>,
     <<"D", "i", "s", "t", "r", "i", "c", "t", " ", "1">>,
     <<"D", "I", "S", "T", "R", "I", "C", "T", " ", "0">>,
     <<"E", "A", "S", "T", " ", "B", "A", "T", "O", "N", " ", "R", "O", "U", "G", "E", " ", "P", "A", "R", "I", "S", "H">>,
     <<"Y", "A", "K", "U", "T", "A", "T", " ", "C", "I", "T", "Y", " ", "A", "N", "D", " ", "B", "O", "R", "O", "U", "G", "H">>,
     <<"A", "N", "C", "H", "O", "R", "A", "G", "E", " ", "M", "U", "N", "I", "C", "I", "P", "A", "L", "I", "T", "Y">>,
     <<"A", "L", "E", "U", "T", "I", "A", "N", "S", " ", "W", "E", "S", "T", " ", "C", "E", "N", "S", "U", "S", " ", "A", "R", "E", "A">>,
     <<" ", " ", "a", "u", "t", "a", "u", "g", "a", "\t", "c", "o", "u", "n", "t", "y", " ">>,
     <<"O", "'", "B", "R", "I", "E", "N">>,
     <<"C", "O", "U", "N", "T", "Y">>,
     <<>>,
     <<"S", "T", ".", " ", "L", "O", "U", "I", "S">>,
     <<"S", "A", "I", "N", "T", " ", " ", "L", "O", "U", "I", "S">>,
     <<"Y", "A", "K", "U", "T", "A", "T">>,
     <<"A", "N", "C", "H", "O", "R", "A", "G", "E">>,
     <<"B", "R", "I", "S", "T", "O", "L", " ", "(", "C", "I", "T", "Y", ")">>}

NameCells == {Null} \cup {Text(n) : n \in CountyNames}

\* the two names of a pair are normalized by the routine of fix_2024_fips.py
CallNormalizeCountyName ==
    /\ stage = "names"
    /\ match_keys = <<>>
    /\ match_keys' = <<NormalizeCountyName(name_a), NormalizeCountyName(name_b)>>
    /\ normalizer' = "fix_2024_fips"
    /\ UNCHANGED <<stage, name_a, name_b>>
    /\ UNCHANGED exceptNames

\* the two names of a pair are normalized by the routine of utils/county_matcher.py
CallMatcherNormalizeCountyName ==
    /\ stage = "names"
    /\ match_keys = <<>>
    /\ match_keys' = <<MatcherNormalizeCountyName(name_a), MatcherNormalizeCountyName(name_b)>>
    /\ normalizer' = "county_matcher"
    /\ UNCHANGED <<stage, name_a, name_b>>
    /\ UNCHANGED exceptNames

(***************************************************************************)
(* Identifier repair of the 2024 cycle: create_fips_lookup and             *)
(* fix_2024_fips (fix_2024_fips.py).  The cells of the tables are strings; *)
(* Spelling gives the characters of each, for the routines that look at    *)
(* characters.  Identifiers are the integers read_csv makes of the fips    *)
(* column of elections_2020.csv.                                           *)
(***************************************************************************)
MaxRef == 2
MaxRaw == 2

Spelling ==
    [n \in {"BEDFORD CITY", "BEDFORD COUNTY", "Bedford", "DEMOCRAT", "FAIRFAX", "MISSOURI", "REPUBLICAN", "Republican", "SAINT LOUIS", "ST. LOUIS", "ST. LOUIS CITY", "VIRGINIA", "Virginia", "WRITE-IN"} |->
        CASE n = "BEDFORD CITY" -> <<"B", "E", "D", "F", "O", "R", "D", " ", "C", "I", "T", "Y">>
          [] n = "BEDFORD COUNTY" -> <<"B", "E", "D", "F", "O", "R", "D", " ", "C", "O", "U", "N", "T", "Y">>
          [] n = "Bedford" -> <<"B", "e", "d", "f", "o", "r", "d">>
          [] n = "DEMOCRAT" -> <<"D", "E", "M", "O", "C", "R", "A", "T">>
          [] n = "FAIRFAX" -> <<"F", "A", "I", "R", "F", "A", "X">>
          [] n = "MISSOURI" -> <<"M", "I", "S", "S", "O", "U", "R", "I">>
          [] n = "REPUBLICAN" -> <<"R", "E", "P", "U", "B", "L", "I", "C", "A", "N">>
          [] n = "Republican" -> <<"R", "e", "p", "u", "b", "l", "i", "c", "a", "n">>
          [] n = "SAINT LOUIS" -> <<"S", "A", "I", "N", "T", " ", "L", "O", "U", "I", "S">>
          [] n = "ST. LOUIS" -> <<"S", "T", ".", " ", "L", "O", "U", "I", "S">>
          [] n = "ST. LOUIS CITY" -> <<"S", "T", ".", " ", "L", "O", "U", "I", "S", " ", "C", "I", "T", "Y">>
          [] n = "VIRGINIA" -> <<"V", "I", "R", "G", "I", "N", "I", "A">>
          [] n = "Virginia" -> <<"V", "i", "r", "g", "i", "n", "i", "a">>
          [] n = "WRITE-IN" -> <<"W", "R", "I", "T", "E", "-", "I", "N">>]

\* normalize_state_name
NormalizeStateName(cell) == IF cell.isna THEN <<>> ELSE Strip(Upper(cell.text))

\* the key of the lookup: (normalize_county_name(county), normalize_state_name(state))
MatchKey(county, state) ==
    <<NormalizeCountyName(Text(Spelling[county])), NormalizeStateName(Text(Spelling[state]))>>

\* create_fips_lookup: a later row of the 2020 table replaces an earlier one with its key
CreateFipsLookup(df) ==
    LET keys == {MatchKey(df[i].county, df[i].state) : i \in 1..Len(df)}
    IN  [k \in keys |->
            LET idx == {i \in 1..Len(df) : MatchKey(df[i].county, df[i].state) = k}
            IN  df[CHOOSE i \in idx : \A j \in idx : j <= i].fips]

\* party_mapping of fix_2024_fips
FixPartyMapping ==
    {<<LabelDemocrat, "DEMOCRAT">>, <<LabelRepublican, "REPUBLICAN">>,
     <<LabelLibertarian, "LIBERTARIAN">>, <<LabelGreen, "GREEN">>}

\* df_2024['party'].str.upper().map(party_mapping).fillna('OTHER')
FixParty(p) ==
    LET hit == {e \in FixPartyMapping : e[1] = Upper(Spelling[p])}
    IN  IF hit = {} THEN "OTHER" ELSE (CHOOSE e \in hit : TRUE)[2]

\* the rows of 2024 whose key is in the lookup, under the identifier of the lookup
MapToLookup(lookup, df) ==
    LET matched == SelectSeq(df, LAMBDA r : MatchKey(r.county_name, r.state) \in DOMAIN lookup)
    IN  [i \in 1..Len(matched) |->
            [fips |-> lookup[MatchKey(matched[i].county_name, matched[i].state)],
             county_name |-> matched[i].county_name, state |-> matched[i].state,
             party |-> FixParty(matched[i].party),
             candidatevotes |-> matched[i].candidatevotes,
             totalvotes |-> matched[i].totalvotes]]

\* groupby(['fips', 'county_name', 'state', 'party']).agg(sum, first)
FixAggregate(rows) ==
    LET keys == {AggKey(rows[i]) : i \in 1..Len(rows)}
        byKey == SortByRank({<<<<k[1], StrRank(k[3]), StrRank(k[2]), StrRank(k[4])>>, k>> : k \in keys})
    IN  [n \in 1..Len(byKey) |->
            LET k == byKey[n]
            IN  [fips |-> k[1], state |-> k[2], county |-> k[3], party |-> k[4],
                 votes |-> SumVotes(rows, k), total_votes |-> FirstTotal(rows, k)]]

\* wide_df['state'].map(state_abbrev): the abbreviation of the last 2020 row
\* of the state, none for a state the 2020 table does not spell that way
StatePo(df, state) ==
    LET idx == {i \in 1..Len(df) : df[i].state = state}
    IN  IF idx = {} THEN <<>>
        ELSE <<df[CHOOSE i \in idx : \A j \in idx : j <= i].state_po>>

\* pivot_table(index=['fips', 'county', 'state', 'total_votes'], columns='party')
\* and the lines after it
FixWideTable(long, df) ==
    LET ixs     == {PivotIndex(long[i]) : i \in 1..Len(long)}
        byIx    == SortByRank({<<<<x[1], StrRank(x[3]), StrRank(x[2]), x[4]>>, x>> : x \in ixs})
        columns == {long[i].party : i \in 1..Len(long)} \cup {"DEMOCRAT", "REPUBLICAN"}
    IN  [n \in 1..Len(byIx) |->
            LET ix    == byIx[n]
                cells == [p \in columns |-> PivotCell(long, ix, p)]
            IN  WideRow(cells["DEMOCRAT"], cells["REPUBLICAN"])
                @@ [fips |-> ix[1], state |-> ix[2], county |-> ix[3], total_votes |-> ix[4],
                    state_po |-> StatePo(df, ix[2])]
                @@ cells]

\* fix_2024_fips.  With no row left after the unmatched ones are dropped the
\* outcome depends on the pandas release: wide_df.apply(..., axis=1) on a table
\* without rows returns either a column, and an empty table is written, or a
\* table, and its assignment to the column winner raises ValueError.
FixResults(ref, df) ==
    LET mapped == MapToLookup(CreateFipsLookup(ref), df)
    IN  IF mapped = <<>>
        THEN {[status |-> "returned", rows |-> <<>>], [status |-> "raised", rows |-> <<>>]}
        ELSE {[status |-> "returned", rows |-> FixWideTable(FixAggregate(mapped), ref)]}

\* rows of elections_2020.csv: Bedford county and Bedford city (Virginia),
\* St. Louis county and St. Louis city (Missouri)
RefRows ==
    {[county |-> "BEDFORD COUNTY", state |-> "VIRGINIA", state_po |-> "VA", fips |-> 51019],
     [county |-> "BEDFORD CITY", state |-> "VIRGINIA", state_po |-> "VA", fips |-> 51515],
     [county |-> "ST. LOUIS", state |-> "MISSOURI", state_po |-> "MO", fips |-> 29189],
     [county |-> "ST. LOUIS CITY", state |-> "MISSOURI", state_po |-> "MO", fips |-> 29510]}

\* tables of up to n distinct counties
RefTables(n) ==
    {t \in SeqsUpTo(RefRows, n) :
        t # <<>> /\ \A i, j \in 1..Len(t) : i # j => t[i].fips # t[j].fips}

\* raw rows of 2024: a county under the spellings of several sources, with a
\* right or a wrong source identifier
RawPlaces ==
    {<<"BEDFORD COUNTY", "VIRGINIA">>, <<"BEDFORD CITY", "VIRGINIA">>, <<"Bedford", "Virginia">>,
     <<"SAINT LOUIS", "MISSOURI">>, <<"ST. LOUIS CITY", "MISSOURI">>,
     <<"BEDFORD COUNTY", "MISSOURI">>, <<"FAIRFAX", "VIRGINIA">>}
RawRows ==
    {[county_name |-> pl[1], state |-> pl[2],
      state_po |-> IF pl[2] = "MISSOURI" THEN "MO" ELSE "VA",
      county_fips |-> f, party |-> p, candidatevotes |-> 2, totalvotes |-> 10] :
        pl \in RawPlaces, f \in {51019, 99999}, p \in {"DEMOCRAT", "Republican", "WRITE-IN"}}
RawTables2024(n) == {t \in SeqsUpTo(RawRows, n) : t # <<>>}

Fix2024Fips ==
    /\ stage = "fix_2024_fips"
    /\ fix_2024 = <<>>
    /\ \E result \in FixResults(df_2020, df_2024) : fix_2024' = <<result>>
    /\ UNCHANGED <<stage, df_2020, df_2024>>
    /\ UNCHANGED exceptFix

(***************************************************************************)
(* Bellwether summary: identify_bellwether_counties                        *)
(* (04_calculate_swings.py).  A swing table holds one row per identifier;  *)
(* swings are in hundredths of a point, their mean is an exact fraction.   *)
(***************************************************************************)
MaxPairs == 3

\* all_fips
AllFips(swings) ==
    UNION {{swings[k][i].fips : i \in 1..Len(swings[k])} : k \in 1..Len(swings)}

\* df[df['fips'] == fips]
CountyData(df, fips) == SelectSeq(df, LAMBDA r : r.fips = fips)

\* county_swings: the first row of the county in each table that has one
CountySwings(swings, fips) ==
    LET hits == SelectSeq(swings, LAMBDA df : CountyData(df, fips) # <<>>)
    IN  [k \in 1..Len(hits) |-> CountyData(hits[k], fips)[1]]

TotalFlipsAllPeriods(county_swings) == Len(county_swings)

\* sum([s['flipped'] for s in county_swings])
TotalFlips(county_swings) ==
    SumSeq([k \in 1..Len(county_swings) |-> IF county_swings[k].flipped THEN 1 ELSE 0])

\* np.mean([abs(s['swing']) for s in county_swings])
AvgSwingMagnitude(county_swings) ==
    Rat(SumSeq([k \in 1..Len(county_swings) |-> Abs(county_swings[k].swing)]),
        Len(county_swings))

\* the record appended to bellwether_data for one identifier
BellwetherRow(swings, fips) ==
    LET county_swings == CountySwings(swings, fips)
    IN  [fips |-> fips,
         county |-> county_swings[1].county,
         state |-> county_swings[1].state,
         appearances |-> Len(county_swings),
         total_flips |-> TotalFlips(county_swings),
         avg_swing_magnitude |-> AvgSwingMagnitude(county_swings)]

\* the orders in which a set can be iterated
Orders(S) ==
    {q \in [1..Cardinality(S) -> S] : \A i, j \in 1..Cardinality(S) : i # j => q[i] # q[j]}

\* identify_bellwether_counties, the set all_fips iterated in the given order
IdentifyBellwetherCounties(swings, order) ==
    [n \in 1..Len(order) |-> BellwetherRow(swings, order[n])]

\* (swing, flipped) of a county in one pair of cycles
SwingChoices == {<<-150, TRUE>>, <<275, FALSE>>}

\* swing tables of the k-th pair of cycles: each county absent, or present with
\* one of the choices
FipsOrder == <<"01001", "01003">>
SwingTables(k) ==
    {LET present == SelectSeq(FipsOrder, LAMBDA f : c[f] # <<>>)
     IN  [i \in 1..Len(present) |->
            [fips |-> present[i],
             county |-> IF present[i] = "01001" THEN "AUTAUGA" ELSE "BALDWIN",
             state |-> "ALABAMA",
             period |-> AdjacentElectionPairs[k],
             swing |-> c[present[i]][1],
             flipped |-> c[present[i]][2]]] :
       c \in [Fips -> SwingChoices \cup {<<>>}]}

\* main(): the swing table of the next pair of cycles joins all_swings
AppendSwingTable ==
    /\ stage = "bellwether"
    /\ bellwether_df = <<>>
    /\ Len(all_swings) < MaxPairs
    /\ \E t \in SwingTables(Len(all_swings) + 1) : all_swings' = Append(all_swings, t)
    /\ UNCHANGED <<stage, bellwether_df>>
    /\ UNCHANGED exceptBellwether

CallIdentifyBellwetherCounties ==
    /\ stage = "bellwether"
    /\ bellwether_df = <<>>
    /\ \E order \in Orders(AllFips(all_swings)) :
          bellwether_df' = <<IdentifyBellwetherCounties(all_swings, order)>>
    /\ UNCHANGED <<stage, all_swings>>
    /\ UNCHANGED exceptBellwether

(***************************************************************************)
(* County matching (utils/county_matcher.py, match_counties).  A row is a  *)
(* county of one table: its identifier as match_counties compares it       *)
(* (after astype(str).str.zfill(5)), its name and its state.               *)
(***************************************************************************)
MaxLeft == 2
MaxRight == 3

\* two counties under their own identifier, and the same two names under an
\* identifier the other table does not use
MatchRows ==
    {[fips |-> "51019", county |-> "BEDFORD COUNTY", state |-> "VIRGINIA"],
     [fips |-> "51515", county |-> "BEDFORD CITY", state |-> "VIRGINIA"],
     [fips |-> "51059", county |-> "FAIRFAX", state |-> "VIRGINIA"],
     [fips |-> "51600", county |-> "FAIRFAX", state |-> "Virginia"]}

\* df['_match_key'] = df['_norm_county'] + '|' + df['_norm_state']
MatcherMatchKey(r) ==
    MatcherNormalizeCountyName(Text(Spelling[r.county])) \o <<"|">>
        \o NormalizeStateName(Text(Spelling[r.state]))

\* unmatched_df1.merge(unmatched_df2, on='_match_key', how='inner')
RECURSIVE MergeOnMatchKey(_, _)
MergeOnMatchKey(y1, y2) ==
    IF y1 = <<>> THEN <<>>
    ELSE LET a  == Head(y1)
             ms == SelectSeq(y2, LAMBDA b : MatcherMatchKey(b) = MatcherMatchKey(a))
         IN  [i \in 1..Len(ms) |-> [l |-> a, r |-> ms[i]]] \o MergeOnMatchKey(Tail(y1), y2)

\* the pairs of a merge, marked with the strategy that found them
PairedBy(strategy, pairs) ==
    [i \in 1..Len(pairs) |-> [by |-> strategy, l |-> pairs[i].l, r |-> pairs[i].r]]

\* match_counties on two tables that both have rows: the identifier merge,
\* then, when it has fewer rows than df1, the name merge of the rows whose
\* identifier is not in the identifier merge
MatchCounties(left, right) ==
    LET matched_fips     == Merge(left, right)
        matched_fips_set == {matched_fips[i].l.fips : i \in 1..Len(matched_fips)}
        unmatched_df1    == IF Len(matched_fips) > 0
                            THEN SelectSeq(left, LAMBDA r : r.fips \notin matched_fips_set)
                            ELSE left
        unmatched_df2    == IF Len(matched_fips) > 0
                            THEN SelectSeq(right, LAMBDA r : r.fips \notin matched_fips_set)
                            ELSE right
        matched_name     == MergeOnMatchKey(unmatched_df1, unmatched_df2)
    IN  IF Len(matched_fips) < Len(left) /\ Len(matched_name) > 0
        THEN PairedBy("fips", matched_fips) \o PairedBy("name", matched_name)
        ELSE PairedBy("fips", matched_fips)

\* the ways a call can end.  With no row in df1 the match summary divides by
\* len(df1) = 0; with no row in df2 the key column of df2 is built from an
\* empty apply result, which raises or not with the library release.
MatchCountiesResults(left, right) ==
    IF left = <<>> THEN {[status |-> "raised", rows |-> <<>>]}
    ELSE IF right = <<>>
         THEN {[status |-> "raised", rows |-> <<>>], [status |-> "returned", rows |-> <<>>]}
         ELSE {[status |-> "returned", rows |-> MatchCounties(left, right)]}

CallMatchCounties ==
    /\ stage = "match_counties"
    /\ match_result = <<>>
    /\ \E res \in MatchCountiesResults(df1, df2) : match_result' = <<res>>
    /\ UNCHANGED <<stage, df1, df2>>
    /\ UNCHANGED exceptMatch

(***************************************************************************)
(* Front-end export (07_export_for_frontend.py).  A value read from a map  *)
(* file is a record of its Python type and payload: b for booleans, n for  *)
(* integers and, in units of 10^-7, for finite floats, s for the characters*)
(* of a string and for the name of a float that is not finite.             *)
(***************************************************************************)
FloatUnit == 10000000

PyValue(t, b, n, s) == [type |-> t, b |-> b, n |-> n, s |-> s]
PyNone       == PyValue("NoneType", FALSE, 0, <<>>)
PdNA         == PyValue("NAType", FALSE, 0, <<>>)
PdNaT        == PyValue("NaTType", FALSE, 0, <<>>)
PyBool(b)    == PyValue("bool", b, 0, <<>>)
NpBool(b)    == PyValue("numpy.bool_", b, 0, <<>>)
PyInt(n)     == PyValue("int", FALSE, n, <<>>)
NpInt(n)     == PyValue("numpy.int64", FALSE, n, <<>>)
PyFloat(x)   == PyValue("float", FALSE, x, <<>>)
NpFloat(x)   == PyValue("numpy.float64", FALSE, x, <<>>)
PyStr(s)     == PyValue("str", FALSE, 0, s)
NotFinite    == {<<"n", "a", "n">>, <<"i", "n", "f">>, <<"-", "i", "n", "f">>}

\* what json.dump writes for a cleaned value: null, true/false, a number
\* (n units of 10^-7 when frac, else the integer n) or a string
JsonNull      == [json |-> "null", b |-> FALSE, n |-> 0, frac |-> FALSE, s |-> <<>>]
JsonBoolean(b) == [json |-> "boolean", b |-> b, n |-> 0, frac |-> FALSE, s |-> <<>>]
JsonInteger(n) == [json |-> "number", b |-> FALSE, n |-> n, frac |-> FALSE, s |-> <<>>]
JsonFloat(x)  == [json |-> "number", b |-> FALSE, n |-> x, frac |-> TRUE, s |-> <<>>]
JsonString(s) == [json |-> "string", b |-> FALSE, n |-> 0, frac |-> FALSE, s |-> s]

BOOLEAN_FIELDS == {"flipped"}

\* pd.isna of a scalar that is not None
PdIsNa(value) ==
    \/ value.type \in {"NAType", "NaTType"}
    \/ value.type \in {"float", "numpy.float64"} /\ value.s = <<"n", "a", "n">>

\* value.item() of a numpy scalar; other values have no item attribute
Item(value) ==
    CASE value.type = "numpy.bool_"   -> [value EXCEPT !.type = "bool"]
      [] value.type = "numpy.int64"   -> [value EXCEPT !.type = "int"]
      [] value.type = "numpy.float64" -> [value EXCEPT !.type = "float"]
      [] OTHER -> value

\* round(value, 6) of a finite float whose seventh decimal is not 5
Round6(x) ==
    LET q == x \div 10
        r == x % 10
    IN  IF r > 5 THEN (q + 1) * 10 ELSE q * 10

StrIn(s, L) == \E i \in 1..Len(L) : L[i] = s

\* clean_value_for_json: the checks in the order of the code.  isinstance(value,
\* (int, np.integer)) holds of a bool, a subclass of int, and int(True) is 1.
CleanValueForJson(value, prop_name) ==
    IF value.type = "NoneType" THEN JsonNull
    ELSE IF PdIsNa(value) THEN JsonNull
    ELSE LET v == Item(value)
         IN  IF v.type = "float"
             THEN IF v.s \in NotFinite THEN JsonNull
                  ELSE IF v.n % FloatUnit = 0 THEN JsonInteger(v.n \div FloatUnit)
                  ELSE JsonFloat(Round6(v.n))
             ELSE IF v.type \in {"int", "bool"}
             THEN JsonInteger(IF v.type = "bool" THEN (IF v.b THEN 1 ELSE 0) ELSE v.n)
             ELSE IF v.type = "bool" THEN JsonBoolean(v.b)
             ELSE LET value_lower == Lower(v.s)
                  IN  IF StrIn(value_lower, <<<<"t", "r", "u", "e">>, <<"1">>, <<"y", "e", "s">>>>)
                      THEN JsonBoolean(TRUE)
                      ELSE IF StrIn(value_lower, <<<<"f", "a", "l", "s", "e">>, <<"0">>, <<"n", "o">>>>)
                      THEN JsonBoolean(FALSE)
                      ELSE IF StrIn(value_lower, <<<<"n", "a", "n">>, <<"n", "o", "n", "e">>, <<"<", "n", "a", ">">>, <<"n", "a", "t">>, <<>>>>)
                      THEN JsonNull
                      ELSE IF prop_name \in BOOLEAN_FIELDS
                      THEN JsonBoolean(value_lower = <<"t", "r", "u", "e">>)
                      ELSE JsonString(v.s)

\* the values a property of a map-file row can hold
ExportStrings ==
    {<<"t", "r", "u", "e">>,
     <<"T", "r", "u", "e">>,
     <<"T", "R", "U", "E">>,
     <<"f", "a", "l", "s", "e">>,
     <<"F", "a", "l", "s", "e">>,
     <<"1">>,
     <<"0">>,
     <<"y", "e", "s">>,
     <<"N", "O">>,
     <<"n", "a", "n">>,
     <<"N", "a", "N">>,
     <<"N", "o", "n", "e">>,
     <<"<", "N", "A", ">">>,
     <<"N", "a", "T">>,
     <<>>,
     <<"D", "E", "M", "_", "T", "O", "_", "R", "E", "P">>,
     <<"R", "E", "P", "U", "B", "L", "I", "C", "A", "N">>}
ExportFloats == {0, 3 * FloatUnit, 0 - 2 * FloatUnit, 25000000, 1234567, 0 - 4999994}
ExportInts == {0, 1, 2020, 0 - 7}
ExportValues ==
    {PyNone, PdNA, PdNaT}
    \cup {PyBool(b) : b \in BOOLEAN} \cup {NpBool(b) : b \in BOOLEAN}
    \cup {PyInt(n) : n \in ExportInts} \cup {NpInt(n) : n \in ExportInts}
    \cup {PyFloat(x) : x \in ExportFloats} \cup {NpFloat(x) : x \in ExportFloats}
    \cup {PyValue(t, FALSE, 0, s) : t \in {"float", "numpy.float64"}, s \in NotFinite}
    \cup {PyStr(s) : s \in ExportStrings}
ExportProperties == {"flipped", "winner", "total_votes"}

\* extract_election_data, for one property of one row: the cleaned value is
\* put into the county's record unless it is null
ExtractElectionData ==
    /\ stage = "export"
    /\ cleaned_value = <<>>
    /\ LET json_value == CleanValueForJson(row_value, prop)
       IN  /\ cleaned_value' = <<json_value>>
           /\ county_data' = IF json_value.json = "null" THEN {}
                             ELSE {[prop |-> prop, value |-> json_value]}
    /\ UNCHANGED <<stage, row_value, prop>>
    /\ UNCHANGED exceptExport

(***************************************************************************)
(* The derived files of stages 04, 05 and 06 in COMBINED_DIR: the          *)
(* election_map files that stage 05 writes and stage 06 reads and rewrites,*)
(* county_classifications.csv, and bellwether_counties.csv, which both     *)
(* stage 06 (export_bellwether_counties) and stage 04 (main, --all) write. *)
(***************************************************************************)
MaxStageRuns == 4

\* the votes behind a D and an R result
PipelineVotes(w) == IF w = "D" THEN <<2, 1, 3>> ELSE <<1, 2, 3>>

\* winner patterns over the seven cycles of ELECTION_YEARS: the first county
\* may lack results in some cycles, the second has results in all of them
PipelineResults ==
    {[f \in Fips |-> IF f = "01001" THEN a ELSE b] :
        a \in {<<"D", "R", "D", "D", "D", "D", "R">>, <<"D", "R", "-", "D", "D", "D", "R">>,
               <<"D", "D", "D", "D", "D", "D", "D">>, <<"D", "R", "-", "-", "D", "D", "R">>},
        b \in {<<"D", "R", "D", "D", "D", "D", "R">>, <<"R", "R", "R", "R", "R", "R", "R">>,
               <<"D", "R", "D", "D", "R", "D", "D">>}}

\* the cycles --year names in the runs of stage 05, and the pairs --year1 and
\* --year2 name in the runs of stage 04
Stage05YearArgs == {2008, 2024}
Stage04PairArgs == {<<2004, 2008>>, <<2020, 2024>>}

\* the table elections_{year}.csv of cycle k: the counties with results
ElectionTable(res, k) ==
    LET present == SelectSeq(FipsOrder, LAMBDA f : res[f][k] # "-")
    IN  [i \in 1..Len(present) |->
            ElecRow(present[i], PipelineVotes(res[present[i]][k]))
              @@ [county |-> IF present[i] = "01001" THEN "AUTAUGA" ELSE "BALDWIN",
                  state |-> "ALABAMA"]]

\* merge_election_with_geography and prepare_for_export (stage 05): the left
\* join gives every county of the boundary set a row in every cycle; a county
\* without results has a null winner, and its null margin is written as 0
MapRow(res, f, k) ==
    IF res[f][k] = "-"
    THEN [year |-> ElectionYears[k], margin |-> Num(0), winner |-> NullWinner,
          swing |-> <<>>, trend |-> <<>>]
    ELSE LET w == WideRow(PipelineVotes(res[f][k])[1], PipelineVotes(res[f][k])[2])
         IN  [year |-> ElectionYears[k], margin |-> Num(w.margin), winner |-> w.winner,
              swing |-> <<>>, trend |-> <<>>]

MergedMapFiles(res) == [f \in Fips |-> [k \in 1..Len(ElectionYears) |-> MapRow(res, f, k)]]

\* load_swing_data, add_swing_to_merged_data and prepare_for_export, for the
\* row of one county in the map file of cycle k: with --include-swings and the
\* swing file of the pair that ends in the cycle on disk, the swing columns
\* are joined on fips (left join) and a null swing is written as 0.  Of the
\* swing columns only swing is read by stage 06, and only it is kept here.
AddSwingToMergedData(row, f, k, files, include_swings) ==
    IF include_swings /\ k > 1 /\ files[k - 1].exists
    THEN LET swing_rows == SelectSeq(files[k - 1].rows, LAMBDA r : r.fips = f)
         IN  [row EXCEPT !.swing = IF swing_rows = <<>> THEN <<0>>
                                   ELSE <<swing_rows[1].swing>>]
    ELSE row

\* load_all_county_data and calculate_all_trends: one record per identifier,
\* in the order of groupby('fips'); the tables the call can return, one for
\* each choice of what calculate_county_trends returns for each county
CalculateAllTrends(files) ==
    LET of(i) == {m @@ [fips |-> FipsOrder[i]] :
                     m \in CalculateCountyTrends(files[FipsOrder[i]])}
    IN  {t \in [1..Len(FipsOrder) -> UNION {of(i) : i \in 1..Len(FipsOrder)}] :
            \A i \in 1..Len(FipsOrder) : t[i] \in of(i)}

\* merge_trends_into_geojson, for the rows of one county: the trend columns
\* of an earlier run are dropped and the new ones joined on fips; numeric
\* nulls become 0 and string nulls the empty string
MergeTrendsIntoGeojson(rows, trend) ==
    [i \in 1..Len(rows) |->
        [year   |-> rows[i].year,
         margin |-> Num(MarginOf(rows[i])),
         winner |-> IF rows[i].winner = NullWinner THEN "" ELSE rows[i].winner,
         swing  |-> rows[i].swing,
         trend  |-> <<trend>>]]

\* export_classification_summary: the selected columns, the rows sorted by
\* fips (the table has one row per identifier); a county with fewer than 3
\* cycles has no value in the metric columns
ExportClassificationSummary(trends) ==
    LET cell(t, col) == IF col \in DOMAIN t THEN t[col] ELSE NaN
        summary == [i \in 1..Len(trends) |->
            [fips |-> trends[i].fips, classification |-> trends[i].classification,
             avg_margin |-> cell(trends[i], "avg_margin"),
             margin_std_sq |-> cell(trends[i], "margin_std_sq"),
             trajectory |-> cell(trends[i], "trajectory"),
             trajectory_direction |-> cell(trends[i], "trajectory_direction"),
             total_flips |-> cell(trends[i], "total_flips"),
             bellwether_score |-> cell(trends[i], "bellwether_score"),
             avg_competitiveness |-> cell(trends[i], "avg_competitiveness")]]
    IN  SortByRank({<<<<StrRank(summary[i].fips)>>, summary[i]>> : i \in 1..Len(summary)})

\* sort_values('bellwether_score', ascending=False): rows of equal score keep
\* the order of the table
RECURSIVE InsertByScore(_, _)
InsertByScore(q, r) ==
    IF q = <<>> THEN <<r>>
    ELSE IF RLt(Head(q).bellwether_score, r.bellwether_score) THEN <<r>> \o q
    ELSE <<Head(q)>> \o InsertByScore(Tail(q), r)

RECURSIVE SortByScore(_)
SortByScore(q) ==
    IF q = <<>> THEN <<>>
    ELSE InsertByScore(SortByScore(SubSeq(q, 1, Len(q) - 1)), q[Len(q)])

\* export_bellwether_counties: the swing counties with a score of 80 or more
ExportBellwetherCounties(trends) ==
    SortByScore(SelectSeq(trends, LAMBDA t :
        t.classification = "SWING" /\ RLe(Whole(80), t.bellwether_score)))

\* the swing table of the k-th adjacent pair of cycles, as stage 04 builds it
SwingTableRows(pairs, k) ==
    [i \in 1..Len(pairs) |->
        SwingRow(pairs[i], FALSE)
          @@ [county |-> pairs[i].l.county, state |-> pairs[i].l.state,
              period |-> <<ElectionYears[k], ElectionYears[k + 1]>>]]

PairSwingTable(res, k) ==
    CHOOSE pair_table \in
        {SwingTableRows(pairs, k) :
            pairs \in {Merge(ElectionTable(res, k), ElectionTable(res, k + 1))}} : TRUE

AllSwingTables(res) == [k \in 1..(Len(ElectionYears) - 1) |-> PairSwingTable(res, k)]

\* main() of stage 05 (--year, --all, or the latest year, with or without
\* --include-swings): process_year merges the cycle's election table with the
\* boundaries, adds the swing columns when asked to, and
\* export_combined_geojson overwrites election_map_{year}.geojson
RunStage05 ==
    /\ stage = "derived files"
    /\ stage_runs < MaxStageRuns
    /\ \E md \in Modes, a \in Stage05YearArgs, include_swings \in BOOLEAN :
          \E years \in {Range(UnitsOfRun("05_merge_data", md, a))} :
             map_files' = [f \in Fips |-> [k \in 1..Len(ElectionYears) |->
                              IF ElectionYears[k] \in years
                              THEN AddSwingToMergedData(MapRow(cycle_winners, f, k), f, k,
                                                        swing_files, include_swings)
                              ELSE map_files[f][k]]]
    /\ stage_runs' = stage_runs + 1
    /\ UNCHANGED <<stage, cycle_winners, swing_files, stage06_runs, classifications_file,
                   bellwether_file>>
    /\ UNCHANGED exceptOutputs

\* main() of stage 06: trends from the map files, the map files rewritten,
\* the two summaries exported
RunStage06 ==
    /\ stage = "derived files"
    /\ stage_runs < MaxStageRuns
    /\ \E trends_df \in CalculateAllTrends(map_files) :
          \E shortlist \in {ExportBellwetherCounties(trends_df)},
             summary \in {ExportClassificationSummary(trends_df)} :
             /\ map_files' = [f \in Fips |->
                   MergeTrendsIntoGeojson(map_files[f],
                       trends_df[CHOOSE i \in 1..Len(trends_df) : trends_df[i].fips = f])]
             /\ classifications_file' = File(summary)
             /\ bellwether_file' = File(shortlist)
             /\ stage06_runs' = Append(stage06_runs,
                   [read |-> map_files, trends_df |-> trends_df,
                    classifications |-> summary, bellwethers |-> shortlist])
    /\ stage_runs' = stage_runs + 1
    /\ UNCHANGED <<stage, cycle_winners, swing_files>>
    /\ UNCHANGED exceptOutputs

\* main() of stage 04 with --year1 and --year2 naming an adjacent pair, or
\* with no argument (the most recent pair): process_swing_pair writes the
\* swing file of the pair; with one pair processed no summary is written
RunStage04Pair ==
    /\ stage = "derived files"
    /\ stage_runs < MaxStageRuns
    /\ \E md \in {"single", "default"}, a \in Stage04PairArgs :
          \E pair \in Range(UnitsOfRun("04_calculate_swings", md, a)) :
             \E k \in {i \in 1..Len(AdjacentElectionPairs) : AdjacentElectionPairs[i] = pair} :
                swing_files' = [swing_files EXCEPT ![k] = File(PairSwingTable(cycle_winners, k))]
    /\ stage_runs' = stage_runs + 1
    /\ UNCHANGED <<stage, cycle_winners, map_files, stage06_runs, classifications_file,
                   bellwether_file>>
    /\ UNCHANGED exceptOutputs

\* main() of stage 04 with --all: every adjacent pair is processed and its
\* swing file written, and with more than one pair the table of
\* identify_bellwether_counties, when it has rows, is written to
\* bellwether_counties.csv
RunStage04All ==
    /\ stage = "derived files"
    /\ stage_runs < MaxStageRuns
    /\ \E all_pairs \in {AllSwingTables(cycle_winners)} :
          /\ swing_files' = [k \in 1..Len(all_pairs) |-> File(all_pairs[k])]
          /\ \E order \in Orders(AllFips(all_pairs)) :
                LET bellwethers == IdentifyBellwetherCounties(all_pairs, order)
                IN  IF Len(all_pairs) > 1 /\ bellwethers # <<>>
                    THEN bellwether_file' = File(bellwethers)
                    ELSE UNCHANGED bellwether_file
    /\ stage_runs' = stage_runs + 1
    /\ UNCHANGED <<stage, cycle_winners, map_files, stage06_runs, classifications_file>>
    /\ UNCHANGED exceptOutputs

(***************************************************************************)
(* The file elections_2024.csv, which stage 02 (02_clean_elections.py)     *)
(* writes from the raw table under the source identifiers and              *)
(* fix_2024_fips.py replaces by a table under the identifiers of 2020.     *)
(***************************************************************************)
MaxRuns2024 == 2
MaxRows2024 == 1

\* raw rows of 2020: one row of each county of RefRows, under its own
\* identifier
RawRows2020 ==
    {[county_name |-> r.county, state |-> r.state, state_po |-> r.state_po,
      county_fips |-> r.fips, party |-> "DEMOCRAT", candidatevotes |-> 2,
      totalvotes |-> 10] : r \in RefRows}

\* the ways stage 02 is started that write a file of the 2020 or of the 2024
\* cycle: --all, --year 2020, --year 2024, and no argument
Stage02Modes == {"--all", "--year 2020", "--year 2024", "default"}

\* standardize_parties, on the party spellings of the raw rows
Stage02Party(p) ==
    LET label == StandardizePartyName(Text(Spelling[p]))
        hit   == {e \in FixPartyMapping : e[1] = label}
    IN  IF hit # {} THEN (CHOOSE e \in hit : TRUE)[2]
        ELSE IF label = LabelIndependent THEN "INDEPENDENT" ELSE "OTHER"

\* clean_fips_codes and standardize_parties: every raw row keeps its source
\* identifier (five digits) as fips
SourceKeyed(df) ==
    [i \in 1..Len(df) |->
        [fips |-> df[i].county_fips,
         county_name |-> df[i].county_name, state |-> df[i].state,
         party |-> Stage02Party(df[i].party),
         candidatevotes |-> df[i].candidatevotes,
         totalvotes |-> df[i].totalvotes]]

\* aggregate_by_county_party and create_wide_format for the raw rows of one
\* cycle.  A raw table spells a state and its state_po one way, so state_po
\* changes neither the groups nor their order
Stage02Elections(df) ==
    LET long    == FixAggregate(SourceKeyed(df))
        ixs     == {PivotIndex(long[i]) : i \in 1..Len(long)}
        byIx    == SortByRank({<<<<x[1], StrRank(x[2]), StrRank(x[3]), x[4]>>, x>> : x \in ixs})
        columns == {long[i].party : i \in 1..Len(long)} \cup {"DEMOCRAT", "REPUBLICAN"}
    IN  [n \in 1..Len(byIx) |->
            LET ix    == byIx[n]
                cells == [p \in columns |-> PivotCell(long, ix, p)]
                first == CHOOSE i \in 1..Len(df) :
                            /\ df[i].state = ix[2]
                            /\ \A j \in 1..Len(df) : df[j].state = ix[2] => i <= j
            IN  WideRow(cells["DEMOCRAT"], cells["REPUBLICAN"])
                @@ [fips |-> ix[1], state |-> ix[2], state_po |-> df[first].state_po,
                    county |-> ix[3], total_votes |-> ix[4]]
                @@ cells]

\* main() of stage 02: process_year runs for the cycles of the mode
\* (ELECTION_YEARS with --all, the named year with --year, and with no
\* argument the latest year of the raw table, which holds rows of 2024), and
\* export_cleaned_data overwrites elections_{year}.csv with the table made
\* from the raw rows of the cycle
RunStage02 ==
    /\ stage = "elections_2024"
    /\ runs_2024 < MaxRuns2024
    /\ \E mode_02 \in Stage02Modes :
          \E years \in {CASE mode_02 = "--all" -> {2020, 2024}
                           [] mode_02 = "--year 2020" -> {2020}
                           [] mode_02 = "--year 2024" -> {2024}
                           [] mode_02 = "default" -> {2024}} :
             /\ IF 2020 \in years
                THEN \E wide_2020 \in {Stage02Elections(mit_2020)} :
                        elections_2020' = wide_2020
                ELSE UNCHANGED elections_2020
             /\ IF 2024 \in years
                THEN \E wide_2024 \in {Stage02Elections(mit_2024)} :
                        elections_2024' = File(wide_2024)
                ELSE UNCHANGED elections_2024
    /\ runs_2024' = runs_2024 + 1
    /\ UNCHANGED <<stage, mit_2020, mit_2024, elections_2024_broken, fix_succeeded>>
    /\ UNCHANGED exceptCycle2024

\* fix_2024_fips run to its end: the fixed table is written, the file that
\* was there becomes elections_2024_broken.csv, and the fixed table takes
\* its name; a run that raises leaves the files as they are
RunFix2024Fips ==
    /\ stage = "elections_2024"
    /\ runs_2024 < MaxRuns2024
    /\ \E result \in FixResults(elections_2020, mit_2024) :
          IF result.status = "returned"
          THEN /\ elections_2024' = File(result.rows)
               /\ elections_2024_broken' = IF elections_2024.exists THEN elections_2024
                                           ELSE elections_2024_broken
               /\ fix_succeeded' = TRUE
          ELSE UNCHANGED <<elections_2024, elections_2024_broken, fix_succeeded>>
    /\ runs_2024' = runs_2024 + 1
    /\ UNCHANGED <<stage, mit_2020, mit_2024, elections_2020>>
    /\ UNCHANGED exceptCycle2024

(***************************************************************************)
(* Initial states and specifications: one specification per component,     *)
(* the other components at rest                                            *)
(***************************************************************************)
AggIdle ==
    /\ votes = [DEMOCRAT |-> 0, REPUBLICAN |-> 0]
    /\ wide = <<>>
    /\ wideBy = None

SwingIdle ==
    /\ elections = <<NoFile, NoFile>>
    /\ called = None
    /\ swing_df = [status |-> None, rows |-> <<>>]
    /\ swingFile = NoFile
    /\ pairResult = None

TrendIdle ==
    /\ county_history = <<>>
    /\ metrics = <<>>
    /\ score = <<>>

ClassIdle ==
    /\ classifyIn = [avg_margin |-> Whole(0), margin_std_sq |-> Whole(0), flip_rate |-> Whole(0),
                     close_election_rate |-> Whole(0), total_flips |-> 0]
    /\ classification = None

PivotIdle ==
    /\ cleaned = <<>>
    /\ cycle = <<>>
    /\ agg_df = <<>>
    /\ wide_df = <<>>

PartyIdle ==
    /\ raw_party = Null
    /\ standardized = <<>>

FipsIdle ==
    /\ raw_df = <<>>
    /\ fips_df = <<>>

BatchIdle ==
    /\ driver = None /\ mode = None
    /\ arg = <<>>
    /\ setup_ok = TRUE
    /\ failing = {}
    /\ pc = "start"
    /\ todo = <<>> /\ attempts = <<>> /\ results = <<>>
    /\ logged = {} /\ written = {}
    /\ exit_code = <<>>

NamesIdle ==
    /\ name_a = Null /\ name_b = Null
    /\ match_keys = <<>>
    /\ normalizer = None

FixIdle ==
    /\ df_2020 = <<>>
    /\ df_2024 = <<>>
    /\ fix_2024 = <<>>

BellwetherIdle ==
    /\ all_swings = <<>>
    /\ bellwether_df = <<>>

MatchIdle ==
    /\ df1 = <<>>
    /\ df2 = <<>>
    /\ match_result = <<>>

ExportIdle ==
    /\ row_value = <<>>
    /\ prop = None
    /\ cleaned_value = <<>>
    /\ county_data = {}

OutputsIdle ==
    /\ cycle_winners = <<>>
    /\ swing_files = <<>>
    /\ map_files = <<>>
    /\ stage06_runs = <<>>
    /\ classifications_file = NoFile
    /\ bellwether_file = NoFile
    /\ stage_runs = 0

Cycle2024Idle ==
    /\ mit_2020 = <<>>
    /\ mit_2024 = <<>>
    /\ elections_2020 = <<>>
    /\ elections_2024 = NoFile
    /\ elections_2024_broken = NoFile
    /\ fix_succeeded = FALSE
    /\ runs_2024 = 0

\* every component but one at rest
IdleExceptAgg == SwingIdle /\ TrendIdle /\ ClassIdle /\ PivotIdle /\ PartyIdle /\
          FipsIdle /\ BatchIdle /\ NamesIdle /\ FixIdle /\ BellwetherIdle /\ MatchIdle /\
          ExportIdle /\ OutputsIdle /\ Cycle2024Idle
IdleExceptSwing == AggIdle /\ TrendIdle /\ ClassIdle /\ PivotIdle /\ PartyIdle /\
          FipsIdle /\ BatchIdle /\ NamesIdle /\ FixIdle /\ BellwetherIdle /\ MatchIdle /\
          ExportIdle /\ OutputsIdle /\ Cycle2024Idle
IdleExceptTrend == AggIdle /\ SwingIdle /\ ClassIdle /\ PivotIdle /\ PartyIdle /\
          FipsIdle /\ BatchIdle /\ NamesIdle /\ FixIdle /\ BellwetherIdle /\ MatchIdle /\
          ExportIdle /\ OutputsIdle /\ Cycle2024Idle
IdleExceptClass == AggIdle /\ SwingIdle /\ TrendIdle /\ PivotIdle /\ PartyIdle /\
          FipsIdle /\ BatchIdle /\ NamesIdle /\ FixIdle /\ BellwetherIdle /\ MatchIdle /\
          ExportIdle /\ OutputsIdle /\ Cycle2024Idle
IdleExceptPivot == AggIdle /\ SwingIdle /\ TrendIdle /\ ClassIdle /\ PartyIdle /\
          FipsIdle /\ BatchIdle /\ NamesIdle /\ FixIdle /\ BellwetherIdle /\ MatchIdle /\
          ExportIdle /\ OutputsIdle /\ Cycle2024Idle
IdleExceptParty == AggIdle /\ SwingIdle /\ TrendIdle /\ ClassIdle /\ PivotIdle /\
          FipsIdle /\ BatchIdle /\ NamesIdle /\ FixIdle /\ BellwetherIdle /\ MatchIdle /\
          ExportIdle /\ OutputsIdle /\ Cycle2024Idle
IdleExceptFips == AggIdle /\ SwingIdle /\ TrendIdle /\ ClassIdle /\ PivotIdle /\
          PartyIdle /\ BatchIdle /\ NamesIdle /\ FixIdle /\ BellwetherIdle /\ MatchIdle /\
          ExportIdle /\ OutputsIdle /\ Cycle2024Idle
IdleExceptBatch == AggIdle /\ SwingIdle /\ TrendIdle /\ ClassIdle /\ PivotIdle /\
          PartyIdle /\ FipsIdle /\ NamesIdle /\ FixIdle /\ BellwetherIdle /\ MatchIdle /\
          ExportIdle /\ OutputsIdle /\ Cycle2024Idle
IdleExceptNames == AggIdle /\ SwingIdle /\ TrendIdle /\ ClassIdle /\ PivotIdle /\
          PartyIdle /\ FipsIdle /\ BatchIdle /\ FixIdle /\ BellwetherIdle /\ MatchIdle /\
          ExportIdle /\ OutputsIdle /\ Cycle2024Idle
IdleExceptFix == AggIdle /\ SwingIdle /\ TrendIdle /\ ClassIdle /\ PivotIdle /\
          PartyIdle /\ FipsIdle /\ BatchIdle /\ NamesIdle /\ BellwetherIdle /\ MatchIdle /\
          ExportIdle /\ OutputsIdle /\ Cycle2024Idle
IdleExceptBellwether == AggIdle /\ SwingIdle /\ TrendIdle /\ ClassIdle /\ PivotIdle /\
          PartyIdle /\ FipsIdle /\ BatchIdle /\ NamesIdle /\ FixIdle /\ MatchIdle /\
          ExportIdle /\ OutputsIdle /\ Cycle2024Idle
IdleExceptMatch == AggIdle /\ SwingIdle /\ TrendIdle /\ ClassIdle /\ PivotIdle /\
          PartyIdle /\ FipsIdle /\ BatchIdle /\ NamesIdle /\ FixIdle /\ BellwetherIdle /\
          ExportIdle /\ OutputsIdle /\ Cycle2024Idle
IdleExceptExport == AggIdle /\ SwingIdle /\ TrendIdle /\ ClassIdle /\ PivotIdle /\
          PartyIdle /\ FipsIdle /\ BatchIdle /\ NamesIdle /\ FixIdle /\ BellwetherIdle /\
          MatchIdle /\ OutputsIdle /\ Cycle2024Idle
IdleExceptOutputs == AggIdle /\ SwingIdle /\ TrendIdle /\ ClassIdle /\ PivotIdle /\
          PartyIdle /\ FipsIdle /\ BatchIdle /\ NamesIdle /\ FixIdle /\ BellwetherIdle /\
          MatchIdle /\ ExportIdle /\ Cycle2024Idle
IdleExceptCycle2024 == AggIdle /\ SwingIdle /\ TrendIdle /\ ClassIdle /\ PivotIdle /\
          PartyIdle /\ FipsIdle /\ BatchIdle /\ NamesIdle /\ FixIdle /\ BellwetherIdle /\
          MatchIdle /\ ExportIdle /\ OutputsIdle

InitShares ==
    /\ stage = "aggregate"
    /\ votes \in [DEMOCRAT : 0..MaxVotes, REPUBLICAN : 0..MaxVotes]
    /\ wide = <<>>
    /\ wideBy = None
    /\ IdleExceptAgg

NextShares == CreateWideFormat \/ Fix2024Wide

SpecShares == InitShares /\ [][NextShares]_vars

Tables == {NoFile} \cup {File(t) : t \in SeqsUpTo(ElecRows, MaxRows)}

InitSwing ==
    /\ stage = "swing"
    /\ elections \in Tables \X Tables
    /\ called = None
    /\ swing_df = [status |-> None, rows |-> <<>>]
    /\ swingFile = NoFile
    /\ pairResult = None
    /\ IdleExceptSwing

NextSwing == CallCalculateTwoPartySwing \/ ProcessSwingPair

SpecSwing == InitSwing /\ [][NextSwing]_vars

InitTrends ==
    /\ stage = "trends"
    /\ TrendIdle
    /\ IdleExceptTrend

NextTrends == AddCycleRow \/ CallCalculateCountyTrends \/ CallCalculateBellwetherScore

SpecTrends == InitTrends /\ [][NextTrends]_vars

InitClassify ==
    /\ stage = "classify"
    /\ classifyIn \in {[avg_margin |-> Whole(a), margin_std_sq |-> Whole(sd * sd), flip_rate |-> f,
                         close_election_rate |-> Whole(c), total_flips |-> k] :
                            a \in GridMargins, sd \in GridStds, f \in GridFlipRates,
                            c \in GridCloseRates, k \in GridFlips}
    /\ classification = None
    /\ IdleExceptClass

NextClassify == CallClassifyCounty

SpecClassify == InitClassify /\ [][NextClassify]_vars

InitPivot ==
    /\ stage = "process_year"
    /\ cleaned \in SeqsUpTo(CleanedRows, MaxLong)
    /\ cycle = <<>>
    /\ agg_df = <<>>
    /\ wide_df = <<>>
    /\ IdleExceptPivot

NextPivot == ProcessYear

SpecPivot == InitPivot /\ [][NextPivot]_vars

InitParty ==
    /\ stage = "party"
    /\ raw_party \in PartyLabels
    /\ standardized = <<>>
    /\ IdleExceptParty

NextParty == CallStandardizePartyName \/ StandardizeAgain

SpecParty == InitParty /\ [][NextParty]_vars

InitFips ==
    /\ stage = "fips"
    /\ raw_df \in RawTables(MaxIdLen)
    /\ fips_df = <<>>
    /\ IdleExceptFips

NextFips == CallCleanFipsCodes

SpecFips == InitFips /\ [][NextFips]_vars

InitBatch ==
    /\ stage = "batch"
    /\ driver \in Drivers
    /\ mode \in Modes
    /\ arg \in IF mode = "single" THEN {<<a>> : a \in SingleArgs(driver)} ELSE {<<>>}
    /\ setup_ok \in IF driver = "04_calculate_swings" THEN {TRUE} ELSE BOOLEAN
    /\ failing \in SUBSET Range(UnitsOfRun(driver, mode, IF mode = "single" THEN arg[1] ELSE 0))
    /\ pc = "start"
    /\ todo = <<>> /\ attempts = <<>> /\ results = <<>>
    /\ logged = {} /\ written = {}
    /\ exit_code = <<>>
    /\ IdleExceptBatch

NextBatch == MainStart \/ ProcessUnit \/ MainReturn

SpecBatch == InitBatch /\ [][NextBatch]_vars

InitNames ==
    /\ stage = "names"
    /\ name_a \in NameCells
    /\ name_b \in NameCells
    /\ match_keys = <<>>
    /\ normalizer = None
    /\ IdleExceptNames

NextNames == CallNormalizeCountyName \/ CallMatcherNormalizeCountyName

SpecNames == InitNames /\ [][NextNames]_vars

InitFix ==
    /\ stage = "fix_2024_fips"
    /\ df_2020 \in RefTables(MaxRef)
    /\ df_2024 \in RawTables2024(MaxRaw)
    /\ fix_2024 = <<>>
    /\ IdleExceptFix

NextFix == Fix2024Fips

SpecFix == InitFix /\ [][NextFix]_vars

InitBellwether ==
    /\ stage = "bellwether"
    /\ all_swings = <<>>
    /\ bellwether_df = <<>>
    /\ IdleExceptBellwether

NextBellwether == AppendSwingTable \/ CallIdentifyBellwetherCounties

SpecBellwether == InitBellwether /\ [][NextBellwether]_vars

InitMatch ==
    /\ stage = "match_counties"
    /\ df1 \in SeqsUpTo(MatchRows, MaxLeft)
    /\ df2 \in SeqsUpTo(MatchRows, MaxRight)
    /\ match_result = <<>>
    /\ IdleExceptMatch

NextMatch == CallMatchCounties

SpecMatch == InitMatch /\ [][NextMatch]_vars

InitExport ==
    /\ stage = "export"
    /\ row_value \in ExportValues
    /\ prop \in ExportProperties
    /\ cleaned_value = <<>>
    /\ county_data = {}
    /\ IdleExceptExport

NextExport == ExtractElectionData

SpecExport == InitExport /\ [][NextExport]_vars

InitOutputs ==
    /\ stage = "derived files"
    /\ cycle_winners \in PipelineResults
    /\ swing_files = [k \in 1..Len(AdjacentElectionPairs) |-> NoFile]
    /\ map_files = MergedMapFiles(cycle_winners)
    /\ stage06_runs = <<>>
    /\ classifications_file = NoFile
    /\ bellwether_file = NoFile
    /\ stage_runs = 0
    /\ IdleExceptOutputs

NextOutputs == RunStage04Pair \/ RunStage04All \/ RunStage05 \/ RunStage06

SpecOutputs == InitOutputs /\ [][NextOutputs]_vars

InitCycle2024 ==
    /\ stage = "elections_2024"
    /\ mit_2020 \in {t \in SeqsUpTo(RawRows2020, MaxRef) :
                        t # <<>> /\ \A i, j \in 1..Len(t) : i # j => t[i] # t[j]}
    /\ mit_2024 \in RawTables2024(MaxRows2024)
    /\ \E wide_2020 \in {Stage02Elections(mit_2020)} : elections_2020 = wide_2020
    /\ elections_2024 = NoFile
    /\ elections_2024_broken = NoFile
    /\ fix_succeeded = FALSE
    /\ runs_2024 = 0
    /\ IdleExceptCycle2024

NextCycle2024 == RunStage02 \/ RunFix2024Fips

SpecCycle2024 == InitCycle2024 /\ [][NextCycle2024]_vars

(***************************************************************************)
(* Properties                                                              *)
(***************************************************************************)

\* C1 (as claimed): in every row create_wide_format or fix_2024_fips produces,
\* each share is the party's percentage of D + R to the nearest hundredth and
\* the two shares add up to exactly 100 when D + R > 0; both shares and the
\* margin are 0 when D + R = 0.
C1_SharesSumTo100 ==
    \A i \in 1..Len(wide) :
        LET w == wide[i]
            m == w.major_party_votes
        IN  /\ m = votes.DEMOCRAT + votes.REPUBLICAN
            /\ m > 0 =>
                 /\ 2 * Abs(w.dem_share * m - 10000 * votes.DEMOCRAT) <= m
                 /\ 2 * Abs(w.rep_share * m - 10000 * votes.REPUBLICAN) <= m
                 /\ w.dem_share + w.rep_share = 10000
            /\ m = 0 => w.dem_share = 0 /\ w.rep_share = 0 /\ w.margin = 0

\* the tables calculate_two_party_swing was given by the entry point that ran
SwingArg(k) ==
    IF called = "process_swing_pair" THEN LoadElectionYear(elections[k])
    ELSE elections[k].rows

\* row r of the swing table joins a year-1 row and a year-2 row of its fips
FromInputs(r) ==
    \E a \in 1..Len(SwingArg(1)), b \in 1..Len(SwingArg(2)) :
        LET l == SwingArg(1)[a]
            u == SwingArg(2)[b]
        IN  /\ l.fips = r.fips /\ u.fips = r.fips
            /\ r.dem_share_y1 = l.dem_share /\ r.dem_share_y2 = u.dem_share
            /\ r.winner_y1 = l.winner /\ r.winner_y2 = u.winner
            /\ r.total_votes_y1 = l.total_votes /\ r.total_votes_y2 = u.total_votes

\* C2: in every row calculate_two_party_swing returns, swing is the year-2
\* Democratic share minus the year-1 share, swing_magnitude is its absolute
\* value, and swing_direction is DEMOCRAT, REPUBLICAN or NO_CHANGE as swing
\* is positive, negative or exactly zero.
C2_SwingAndDirection ==
    \A i \in 1..Len(swing_df.rows) :
        LET r == swing_df.rows[i]
        IN  /\ FromInputs(r)
            /\ r.swing = r.dem_share_y2 - r.dem_share_y1
            /\ r.swing_magnitude >= 0
            /\ r.swing_magnitude \in {r.swing, 0 - r.swing}
            /\ r.swing > 0 => r.swing_direction = "DEMOCRAT"
            /\ r.swing < 0 => r.swing_direction = "REPUBLICAN"
            /\ r.swing = 0 => r.swing_direction = "NO_CHANGE"

C2_Witness ==
    /\ swing_df.status = "returned"
    /\ \E i, j \in 1..Len(swing_df.rows) :
        /\ swing_df.rows[i].swing = 0 /\ swing_df.rows[i].dem_share_y1 > 0
        /\ swing_df.rows[j].swing < 0

\* C3: in every returned row, flipped holds exactly when the two winners
\* differ, flip_direction is NO_FLIP exactly when flipped is false, and is
\* "<winner_y1>_to_<winner_y2>" otherwise.
C3_FlippedAndDirection ==
    \A i \in 1..Len(swing_df.rows) :
        LET r == swing_df.rows[i]
        IN  /\ FromInputs(r)
            /\ r.flipped \in BOOLEAN
            /\ r.flipped <=> (r.winner_y1 # r.winner_y2)
            /\ (r.flip_direction = "NO_FLIP") <=> ~r.flipped
            /\ (r.winner_y1 = "DEMOCRAT" /\ r.winner_y2 = "REPUBLICAN")
                  => r.flip_direction = "DEMOCRAT_to_REPUBLICAN"
            /\ (r.winner_y1 = "REPUBLICAN" /\ r.winner_y2 = "DEMOCRAT")
                  => r.flip_direction = "REPUBLICAN_to_DEMOCRAT"

C3_Witness ==
    /\ swing_df.status = "returned"
    /\ \E i, j \in 1..Len(swing_df.rows) :
        /\ swing_df.rows[i].flipped
        /\ ~swing_df.rows[j].flipped

\* C4: in every returned row, turnout_change is total_votes_y2 minus
\* total_votes_y1; turnout_change_pct is null (never infinite) when
\* total_votes_y1 = 0, whatever the other rows hold, and otherwise the
\* percentage change to the nearest hundredth.
C4_TurnoutChangePct ==
    \A i \in 1..Len(swing_df.rows) :
        LET r  == swing_df.rows[i]
            t1 == r.total_votes_y1
            t2 == r.total_votes_y2
        IN  /\ FromInputs(r)
            /\ r.turnout_change = t2 - t1
            /\ t1 = 0 => r.turnout_change_pct = NaN
            /\ t1 # 0 =>
                 /\ r.turnout_change_pct.kind = "num"
                 /\ 2 * Abs(r.turnout_change_pct.val * t1 - 10000 * (t2 - t1)) <= t1

C4_Witness ==
    /\ swing_df.status = "returned"
    /\ \E i, j \in 1..Len(swing_df.rows) :
        /\ swing_df.rows[i].total_votes_y1 = 0
        /\ swing_df.rows[i].total_votes_y2 > 0
        /\ swing_df.rows[i].turnout_change_pct = NaN
        /\ swing_df.rows[j].total_votes_y1 > 0
        /\ swing_df.rows[j].turnout_change_pct.kind = "num"
        /\ swing_df.rows[j].turnout_change_pct.val % 100 # 0

\* the number of rows of the inner join, counted per identifier
JoinCount(y1, y2) ==
    LET n(t, f) == Cardinality({i \in 1..Len(t) : t[i].fips = f})
        RECURSIVE Sum(_)
        Sum(S) == IF S = {} THEN 0
                  ELSE LET f == CHOOSE x \in S : TRUE
                       IN  n(y1, f) * n(y2, f) + Sum(S \ {f})
    IN  Sum(Fips)

\* C5: calculate_two_party_swing returns no table with more rows than the
\* larger input; when the join has more rows it raises, and process_swing_pair
\* writes the swing file only for a table that was returned.
C5_JoinIntegrity ==
    called # None =>
        /\ swing_df.status = "returned" =>
              /\ Len(swing_df.rows) = JoinCount(SwingArg(1), SwingArg(2))
              /\ Len(swing_df.rows) <= Max(Len(SwingArg(1)), Len(SwingArg(2)))
        /\ (elections[1].exists /\ elections[2].exists
            /\ JoinCount(SwingArg(1), SwingArg(2)) > Max(Len(SwingArg(1)), Len(SwingArg(2))))
              => swing_df.status = "raised" /\ swing_df.rows = <<>>
        /\ swing_df.status = "raised" => ~swingFile.exists /\ pairResult # "ok"
        /\ swingFile.exists =>
              /\ pairResult = "ok" /\ swing_df.status = "returned"
              /\ swingFile.rows = swing_df.rows

C5_Witness ==
    /\ called = "calculate_two_party_swing"
    /\ swing_df.status = "raised"
    /\ ~swingFile.exists

Magnitude(a) == IF a.n < 0 THEN [n |-> 0 - a.n, d |-> a.d] ELSE a
Rule1(m) ==
    /\ Magnitude(m.avg_margin).n > 1500 * m.avg_margin.d
    /\ m.margin_std_sq.n < 640000 * m.margin_std_sq.d
    /\ 5 * m.flip_rate.n < m.flip_rate.d
Rule2(m) ==
    /\ Magnitude(m.avg_margin).n > 500 * m.avg_margin.d
    /\ 5 * m.flip_rate.n < 2 * m.flip_rate.d
Rule3(m) ==
    \/ 5 * m.flip_rate.n >= 2 * m.flip_rate.d
    \/ m.close_election_rate.n > 60 * m.close_election_rate.d
Rule4(m) == Magnitude(m.avg_margin).n <= 500 * m.avg_margin.d
Suffix(m) == IF m.avg_margin.n > 0 THEN "DEM" ELSE "REP"

\* C6: classify_county returns the result of the first matching rule of
\* (1) |avg_margin| > 15, margin_std < 8, flip_rate < 0.2: SOLID_*;
\* (2) |avg_margin| > 5, flip_rate < 0.4: LEAN_*; (3) flip_rate >= 0.4 or
\* close_election_rate > 60: SWING; (4) |avg_margin| <= 5: COMPETITIVE_*;
\* otherwise LEAN_*; the suffix is DEM when avg_margin > 0 and REP otherwise;
\* (-20, 5, 0) gives SOLID_REP and (3, 9, 0.5) gives SWING; nothing but the
\* four metrics decides the result.
C6_ClassifyPriorityOrder ==
    classification # None =>
        LET m == classifyIn
        IN  /\ Rule1(m) => classification = "SOLID_" \o Suffix(m)
            /\ ~Rule1(m) /\ Rule2(m) => classification = "LEAN_" \o Suffix(m)
            /\ ~Rule1(m) /\ ~Rule2(m) /\ Rule3(m) => classification = "SWING"
            /\ ~Rule1(m) /\ ~Rule2(m) /\ ~Rule3(m) /\ Rule4(m)
                  => classification = "COMPETITIVE_" \o Suffix(m)
            /\ ~Rule1(m) /\ ~Rule2(m) /\ ~Rule3(m) /\ ~Rule4(m)
                  => classification = "LEAN_" \o Suffix(m)
            /\ (m.avg_margin = Whole(-2000) /\ m.margin_std_sq = Whole(250000)
                   /\ m.flip_rate = Whole(0)) => classification = "SOLID_REP"
            /\ (m.avg_margin = Whole(300) /\ m.margin_std_sq = Whole(810000)
                   /\ m.flip_rate = Rat(1, 2)) => classification = "SWING"

\* a county with avg_margin 3, margin_std 9, flip_rate 0.5 and no close
\* election has been classified SWING: rule 3 came before rule 4
C6_Witness ==
    /\ classification = "SWING"
    /\ classifyIn.avg_margin = Whole(300)
    /\ classifyIn.margin_std_sq = Whole(810000)
    /\ classifyIn.flip_rate = Rat(1, 2)
    /\ classifyIn.close_election_rate = Whole(0)

DerivedFields ==
    {"total_flips", "flip_rate", "avg_margin", "margin_std_sq", "trajectory",
     "trajectory_direction", "close_election_rate", "avg_competitiveness",
     "bellwether_score"}

\* C7: with fewer than 3 rows calculate_county_trends returns classification
\* INSUFFICIENT_DATA and none of the derived trend fields; with 3 or more rows
\* it returns every derived field and another classification.
C7_InsufficientData ==
    metrics # <<>> =>
        LET m == metrics[1]
        IN  /\ Len(county_history) < 3 =>
                 /\ m.classification = "INSUFFICIENT_DATA"
                 /\ DOMAIN m \cap DerivedFields = {}
            /\ Len(county_history) >= 3 =>
                 /\ DerivedFields \subseteq DOMAIN m
                 /\ m.classification # "INSUFFICIENT_DATA"

\* a county with exactly two cycles got INSUFFICIENT_DATA and no trend field
C7_Witness ==
    /\ metrics # <<>>
    /\ Len(county_history) = 2
    /\ metrics[1].classification = "INSUFFICIENT_DATA"
    /\ DOMAIN metrics[1] = {"years_with_data", "first_year", "last_year", "classification"}

\* the rows of the history that carry a result
HasData(r) == r.winner # NullWinner

\* winner changes between cycles with data that have no cycle with data between them
FlipsBetweenCyclesWithData(h) ==
    Cardinality({p \in (1..Len(h)) \X (1..Len(h)) :
        /\ HasData(h[p[1]]) /\ HasData(h[p[2]])
        /\ h[p[1]].year < h[p[2]].year
        /\ \A k \in 1..Len(h) :
              HasData(h[k]) => ~(h[p[1]].year < h[k].year /\ h[k].year < h[p[2]].year)
        /\ h[p[1]].winner # h[p[2]].winner})

\* C8: total_flips counts the winner changes between consecutive cycles that
\* have data, in ascending year order whatever the order of the rows; a cycle
\* whose winner is undetermined neither adds a flip nor stops its neighbours
\* from being compared; flip_rate = total_flips / (cycles - 1), in [0, 1].
C8_TotalFlips ==
    (metrics # <<>> /\ Len(county_history) >= 3) =>
        LET m == metrics[1]
        IN  /\ m.total_flips = FlipsBetweenCyclesWithData(county_history)
            /\ m.flip_rate = Rat(m.total_flips, Len(county_history) - 1)
            /\ 0 <= m.flip_rate.n /\ m.flip_rate.n <= m.flip_rate.d

\* the cycles of the history that the national-winner table knows, and those of
\* them the county called as the nation did
Comparable(h) == {i \in 1..Len(h) : h[i].year \in {2000, 2004, 2008, 2012, 2016, 2020, 2024}}
Agreeing(h) ==
    {i \in Comparable(h) :
        \/ h[i].year \in {2000, 2008, 2012, 2016, 2020} /\ h[i].winner = "DEMOCRAT"
        \/ h[i].year \in {2004, 2024} /\ h[i].winner = "REPUBLICAN"}

\* C9: calculate_bellwether_score is 100 * (cycles in the national-winner
\* table whose winner is the national winner) / (cycles in the table); cycles
\* outside the table count in neither number; it is 0 when no cycle is in the
\* table and always within [0, 100].
C9_BellwetherScore ==
    score # <<>> =>
        LET b == score[1]
            t == Cardinality(Comparable(county_history))
            a == Cardinality(Agreeing(county_history))
        IN  /\ t = 0 => b = Whole(0)
            /\ t > 0 => b.n * t = 100 * a * b.d
            /\ b.d > 0 /\ 0 <= b.n /\ b.n <= 100 * b.d

\* a 1996 cycle, one cycle called as the nation did and one called otherwise
\* score 50: the 1996 cycle is in neither number
C9_Witness ==
    /\ score = <<Whole(50)>>
    /\ Len(county_history) = 3
    /\ \E i \in 1..3 : county_history[i].year = 1996
    /\ Cardinality(Agreeing(county_history)) = 1

\* every year of the history moved by k
ShiftYears(h, k) ==
    [i \in 1..Len(h) |-> [year |-> h[i].year + k, margin |-> h[i].margin, winner |-> h[i].winner]]

MarginFilled(r) == IF r.margin = NaN THEN 0 ELSE r.margin.val
RowPairs(h) == {p \in (1..Len(h)) \X (1..Len(h)) : p[1] < p[2]}

RECURSIVE SumOver(_, _)
SumOver(S, f) ==
    IF S = {} THEN 0 ELSE LET x == CHOOSE x \in S : TRUE IN f[x] + SumOver(S \ {x}, f)

\* numerator and denominator of the least-squares slope against (year - first) / 4,
\* written over the pairs of rows
SlopeNum(h) ==
    4 * SumOver(RowPairs(h),
                [p \in RowPairs(h) |-> (h[p[2]].year - h[p[1]].year)
                                         * (MarginFilled(h[p[2]]) - MarginFilled(h[p[1]]))])
SlopeDen(h) ==
    SumOver(RowPairs(h),
            [p \in RowPairs(h) |-> (h[p[2]].year - h[p[1]].year) * (h[p[2]].year - h[p[1]].year)])

C11_WinnerTieBreak ==
    \A i \in 1..Len(wide) :
        /\ wide[i].winner \in {"DEMOCRAT", "REPUBLICAN"}
        /\ (wide[i].winner = "DEMOCRAT") <=> (votes.DEMOCRAT > votes.REPUBLICAN)
        /\ votes.DEMOCRAT = votes.REPUBLICAN => wide[i].winner = "REPUBLICAN"

\* a county tied at 40 votes each has been aggregated and went to REPUBLICAN
C11_Witness ==
    /\ Len(wide) = 1
    /\ votes.DEMOCRAT = 40 /\ votes.REPUBLICAN = 40
    /\ wide[1].DEMOCRAT = 40 /\ wide[1].REPUBLICAN = 40
    /\ wide[1].winner = "REPUBLICAN"

\* the rows of the cleaned table for the cycle that was processed
CycleRows == SelectSeq(cleaned, LAMBDA r : r.year = cycle[1])

\* the cycle total the first row of county f carries
FirstObservedTotal(f) ==
    CycleRows[CHOOSE i \in 1..Len(CycleRows) :
                 /\ CycleRows[i].fips = f
                 /\ \A j \in 1..(i - 1) : CycleRows[j].fips # f].totalvotes

\* C12 (as claimed): the table of a cycle has exactly one row per identifier
\* of the cleaned input of that cycle, for any input, also when the rows of a
\* county carry different cycle totals or different spellings of its name;
\* the row then carries the first observed cycle total.
C12_OneRowPerIdentifier ==
    cycle # <<>> =>
        /\ \A f \in {CycleRows[i].fips : i \in 1..Len(CycleRows)} :
              /\ Cardinality({n \in 1..Len(wide_df) : wide_df[n].fips = f}) = 1
              /\ \A n \in 1..Len(wide_df) :
                    wide_df[n].fips = f => wide_df[n].total_votes = FirstObservedTotal(f)
        /\ \A n \in 1..Len(wide_df) :
              \E i \in 1..Len(CycleRows) : CycleRows[i].fips = wide_df[n].fips

CanonicalParties == {"DEMOCRAT", "REPUBLICAN", "LIBERTARIAN", "GREEN", "OTHER"}

\* the candidate votes of county f for party p in the processed cycle
PartyVotes(f, p) ==
    SumSeq([i \in 1..Len(CycleRows) |->
               IF CycleRows[i].fips = f /\ CycleRows[i].party = p
               THEN CycleRows[i].candidatevotes ELSE 0])

\* C13 (as claimed): every aggregated row carries a count for each of DEMOCRAT,
\* REPUBLICAN, LIBERTARIAN, GREEN and OTHER, equal to the sum of the candidate
\* votes of the county's rows of that party in the cycle, 0 when no row of the
\* cycle has the party; major_party_votes = DEMOCRAT + REPUBLICAN.
C13_PartyCounts ==
    cycle # <<>> =>
        \A n \in 1..Len(wide_df) :
            /\ \A p \in CanonicalParties :
                  /\ p \in DOMAIN wide_df[n]
                  /\ wide_df[n][p] = PartyVotes(wide_df[n].fips, p)
            /\ wide_df[n].major_party_votes = wide_df[n].DEMOCRAT + wide_df[n].REPUBLICAN

CanonicalLabels ==
    {LabelDemocrat, LabelRepublican, LabelLibertarian, LabelGreen, LabelIndependent, LabelOther}

\* the label without the blanks around it, in upper case
Bare(str) ==
    LET inner == {i \in 1..Len(str) : str[i] \notin Whitespace}
    IN  IF inner = {} THEN <<>>
        ELSE LET a == CHOOSE i \in inner : \A j \in inner : i <= j
                 b == CHOOSE i \in inner : \A j \in inner : j <= i
             IN  [k \in 1..(b - a + 1) |-> UpperChar(str[a + k - 1])]

\* C14: standardize_party_name is a total function into the six canonical
\* parties; it ignores letter case and surrounding whitespace, maps every label
\* of the synonym table to its canonical party, maps null and every label not
\* in the table to OTHER, and applied to its own output returns that output.
C14_StandardizePartyName ==
    standardized # <<>> =>
        LET out == standardized[1]
        IN  /\ out \in CanonicalLabels
            /\ raw_party.isna => out = LabelOther
            /\ ~raw_party.isna =>
                 /\ \A e \in PartyMapping : Bare(raw_party.text) = e[1] => out = e[2]
                 /\ (\A e \in PartyMapping : Bare(raw_party.text) # e[1]) => out = LabelOther
                 /\ StandardizePartyName(Text(Lower(raw_party.text))) = out
                 /\ StandardizePartyName(Text(Upper(raw_party.text))) = out
                 /\ StandardizePartyName(Text(<<"\t", " ">> \o raw_party.text \o <<" ">>)) = out
            /\ Len(standardized) = 2 => standardized[2] = out

\* " democratic-farmer-labor" followed by a tab and a newline came out as
\* DEMOCRAT, and DEMOCRAT went in again and came out as DEMOCRAT
C14_Witness ==
    /\ ~raw_party.isna
    /\ raw_party.text = <<" ">> \o Lower(<<"D", "E", "M", "O", "C", "R", "A", "T", "I", "C", "-",
                                      "F", "A", "R", "M", "E", "R", "-", "L", "A", "B", "O", "R">>)
                    \o <<"\t", "\n">>
    /\ standardized = <<LabelDemocrat, LabelDemocrat>>

\* a string of exactly 5 decimal digits
FiveDigitString(str) == Len(str) = 5 /\ \A i \in 1..5 : str[i] \in Digits

\* the identifier of a source cell as the claim forms it: a trailing ".0"
\* dropped, then zeros on the left up to 5 characters
ClaimedIdentifier(cell) ==
    LET t == IF cell.isna THEN <<"n", "a", "n">> ELSE cell.text
        u == IF Len(t) >= 2 /\ SubSeq(t, Len(t) - 1, Len(t)) = <<".", "0">>
             THEN SubSeq(t, 1, Len(t) - 2) ELSE t
    IN  ZFill(u, 5)

\* C15 (as claimed): after clean_fips_codes every remaining row has an
\* identifier of exactly 5 decimal digits; a row is removed exactly when its
\* source identifier, a trailing ".0" dropped and zeros put on its left up to 5
\* characters, is no such string; the rows kept are otherwise as they were, in
\* their order, and the input table is as it was.
C15_CleanFipsCodes ==
    fips_df # <<>> =>
        LET out  == fips_df[1]
            kept == SelectSeq(raw_df, LAMBDA r : FiveDigitString(ClaimedIdentifier(r.county_fips)))
        IN  /\ \A i \in 1..Len(out) : FiveDigitString(out[i].fips)
            /\ Len(out) = Len(kept)
            /\ \A i \in 1..Len(out) :
                  /\ out[i].county_fips = kept[i].county_fips
                  /\ out[i].candidatevotes = kept[i].candidatevotes

\* the units the run was asked to do
RunUnits == Range(UnitsOfRun(driver, mode, IF mode = "single" THEN arg[1] ELSE 0))

\* C16 (as claimed): for each of the batch drivers 02, 04 and 05 the exit code
\* is 0 only when every unit of work of the run succeeded and 1 whenever at
\* least one unit failed, in single-item, all-items and default mode alike.
C16_ExitCode ==
    exit_code # <<>> =>
        /\ exit_code \in {<<0>>, <<1>>}
        /\ exit_code = <<0>> => (RunUnits \subseteq written /\ RunUnits \cap failing = {})
        /\ (\E i \in 1..Len(attempts) : attempts[i] \in failing) => exit_code = <<1>>

\* C17: in an all-items batch of stage 02 or 04 every item is attempted
\* exactly once and in order whatever happened to earlier items: a failure of
\* an item is recorded and the remaining items are still processed and their
\* outputs written.
C17_BatchContinues ==
    (mode = "all" /\ driver \in {"02_clean_elections", "04_calculate_swings"}) =>
        /\ Len(attempts) <= Len(AllUnits(driver))
        /\ \A i \in 1..Len(attempts) : attempts[i] = AllUnits(driver)[i]
        /\ (pc = "done" /\ setup_ok) => attempts = AllUnits(driver)
        /\ logged = Range(attempts) \cap failing
        /\ written = Range(attempts) \ failing

\* stage 04 --all has returned: the first and the third pair failed, all six
\* pairs were attempted and the other four have their files
C17_Witness ==
    /\ driver = "04_calculate_swings" /\ mode = "all"
    /\ pc = "done"
    /\ failing = {<<2000, 2004>>, <<2008, 2012>>}
    /\ attempts = AdjacentElectionPairs
    /\ logged = failing
    /\ written = {<<2004, 2008>>, <<2012, 2016>>, <<2016, 2020>>, <<2020, 2024>>}

\* a name written with "SAINT " or "ST." and the same name written with "ST "
SameNameWithSt(a, b) ==
    /\ a # b
    /\ \/ b = Replace(a, <<"S", "A", "I", "N", "T", " ">>, <<"S", "T", " ">>)
       \/ b = Replace(a, <<"S", "T", ".", " ">>, <<"S", "T", " ">>)

\* C19 (as claimed): name normalization gives "ST. LOUIS COUNTY" and
\* "SAINT LOUIS" the same match key, gives a name written with "SAINT " or
\* "ST." the key of the same name written with "ST ", and keeps the keys of
\* "<name> CITY" and "<name> COUNTY" distinct for every base name on the
\* preserve-list.
C19_NameNormalization ==
    (match_keys # <<>> /\ ~name_a.isna /\ ~name_b.isna) =>
        LET a == name_a.text
            b == name_b.text
        IN  /\ (/\ a = <<"S", "T", ".", " ", "L", "O", "U", "I", "S", " ", "C", "O", "U", "N", "T", "Y">>
                /\ b = <<"S", "A", "I", "N", "T", " ", "L", "O", "U", "I", "S">>) => match_keys[1] = match_keys[2]
            /\ SameNameWithSt(a, b) => match_keys[1] = match_keys[2]
            /\ (\E i \in 1..Len(PreserveCityCounty) :
                    /\ a = PreserveCityCounty[i] \o <<" ", "C", "I", "T", "Y">>
                    /\ b = PreserveCityCounty[i] \o <<" ", "C", "O", "U", "N", "T", "Y">>)
                 => match_keys[1] # match_keys[2]

\* the 2024 table with every source identifier replaced by f
WithSourceFips(df, f) == [i \in 1..Len(df) |-> [df[i] EXCEPT !.county_fips = f]]

\* C18 (as claimed): fix_2024_fips does not raise over unmatched rows (stated
\* for the runs that keep a row: with none left the outcome is the pandas
\* release's) and ignores the source identifier of the 2024 rows; each output
\* row carries the identifier a 2020 row with the same normalized (county
\* name, state) has; a 2024 row whose normalized (name, state) is not in the
\* 2020 table is not in the output; and the rows named as two distinct 2020
\* counties never appear under one identifier.
C18_Fix2024Identifiers ==
    fix_2024 # <<>> =>
        LET out == fix_2024[1]
        IN  /\ MapToLookup(CreateFipsLookup(df_2020), df_2024) # <<>> => out.status = "returned"
            /\ out \in FixResults(df_2020, WithSourceFips(df_2024, 0))
            /\ \A n \in 1..Len(out.rows) : \E i \in 1..Len(df_2020) :
                   /\ MatchKey(df_2020[i].county, df_2020[i].state)
                        = MatchKey(out.rows[n].county, out.rows[n].state)
                   /\ out.rows[n].fips = df_2020[i].fips
            /\ \A k \in 1..Len(df_2024) :
                   (\A i \in 1..Len(df_2020) :
                        MatchKey(df_2020[i].county, df_2020[i].state)
                          # MatchKey(df_2024[k].county_name, df_2024[k].state))
                   => \A n \in 1..Len(out.rows) :
                          ~(/\ out.rows[n].county = df_2024[k].county_name
                            /\ out.rows[n].state = df_2024[k].state)
            /\ \A i, j \in 1..Len(df_2020) : \A n, m \in 1..Len(out.rows) :
                   (/\ df_2020[i].fips # df_2020[j].fips
                    /\ out.rows[n].county = df_2020[i].county /\ out.rows[n].state = df_2020[i].state
                    /\ out.rows[m].county = df_2020[j].county /\ out.rows[m].state = df_2020[j].state)
                   => out.rows[n].fips # out.rows[m].fips

\* the swing tables that hold identifier f, by their place in all_swings
PairsWith(f) ==
    {k \in 1..Len(all_swings) : \E i \in 1..Len(all_swings[k]) : all_swings[k][i].fips = f}

\* C20: identify_bellwether_counties returns one row per identifier that
\* occurs in at least one of the swing tables; its appearances is the number of
\* tables that hold the identifier, its total_flips the number of those in
\* which the county flipped, its avg_swing_magnitude the mean of |swing| over
\* them; so 1 <= appearances <= number of tables and 0 <= total_flips <=
\* appearances.
C20_Bellwether ==
    bellwether_df # <<>> =>
        LET out == bellwether_df[1]
            ids == UNION {{all_swings[k][i].fips : i \in 1..Len(all_swings[k])} :
                             k \in 1..Len(all_swings)}
            RowOf(k, f) == all_swings[k][CHOOSE i \in 1..Len(all_swings[k]) :
                                            all_swings[k][i].fips = f]
        IN  /\ \A f \in ids : Cardinality({n \in 1..Len(out) : out[n].fips = f}) = 1
            /\ \A n \in 1..Len(out) :
                  LET f == out[n].fips
                  IN  /\ f \in ids
                      /\ out[n].appearances = Cardinality(PairsWith(f))
                      /\ out[n].total_flips
                           = Cardinality({k \in PairsWith(f) : RowOf(k, f).flipped})
                      /\ out[n].avg_swing_magnitude.n * Cardinality(PairsWith(f))
                           = out[n].avg_swing_magnitude.d
                               * SumOver(PairsWith(f),
                                         [k \in PairsWith(f) |-> Abs(RowOf(k, f).swing)])
                      /\ 1 <= out[n].appearances /\ out[n].appearances <= Len(all_swings)
                      /\ 0 <= out[n].total_flips /\ out[n].total_flips <= out[n].appearances

\* a county in two of three tables, flipped in one of them, next to a county
\* in all three
C20_Witness ==
    /\ bellwether_df # <<>>
    /\ Len(all_swings) = 3
    /\ Len(bellwether_df[1]) = 2
    /\ \E n \in 1..2 :
          /\ bellwether_df[1][n].appearances = 2
          /\ bellwether_df[1][n].total_flips = 1
          /\ bellwether_df[1][n].avg_swing_magnitude = Rat(425, 2)
    /\ \E n \in 1..2 : bellwether_df[1][n].appearances = 3

\* the county of the example: flip_rate = 0.35 and |avg_margin| = 20
FlipsOftenWideMargin(m) ==
    /\ m.flip_rate = Rat(7, 20)
    /\ Magnitude(m.avg_margin) = Whole(2000)

\* C26 (as claimed): a county with flip_rate = 0.35 and |avg_margin| = 20 is
\* classified by rule 1, SOLID_DEM or SOLID_REP, for any margin_std < 8, and
\* does not reach the swing check of rule 3.
C26_Rule1Example ==
    (/\ classification # None
     /\ FlipsOftenWideMargin(classifyIn)
     /\ classifyIn.margin_std_sq.n < 640000 * classifyIn.margin_std_sq.d)
    => /\ ClassifyBranch(classifyIn) = 1
       /\ classification \in {"SOLID_DEM", "SOLID_REP"}

\* C26 (amended): a county with flip_rate = 0.35 and |avg_margin| = 20 is
\* classified by rule 2, LEAN_DEM or LEAN_REP by the sign of avg_margin, for
\* any margin_std and any close_election_rate, and does not reach the swing
\* check of rule 3.
C26_Rule2Example ==
    (classification # None /\ FlipsOftenWideMargin(classifyIn))
    => /\ ClassifyBranch(classifyIn) = 2
       /\ classification = "LEAN_" \o Suffix(classifyIn)

\* the county of the example with margin_std < 8 and close elections in more
\* than 60 percent of its cycles, classified
C26_Witness ==
    /\ classification = "LEAN_REP"
    /\ FlipsOftenWideMargin(classifyIn)
    /\ classifyIn.margin_std_sq = Whole(500 * 500)
    /\ classifyIn.close_election_rate = Whole(61)

\* C29: one of the first four rules of classify_county matches every finite
\* (avg_margin, margin_std, flip_rate, close_election_rate), the final else is
\* never taken; a county with |avg_margin| <= 5 is SWING or COMPETITIVE_*, a
\* county with flip_rate >= 0.4 is SWING, and avg_margin = 0 never gets the
\* DEM suffix: it is COMPETITIVE_REP unless it is SWING.
C29_RulesExhaustive ==
    classification # None =>
        LET m == classifyIn
        IN  /\ ClassifyBranch(m) \in 1..4
            /\ (ClassifyBranch(m) = 1 <=> classification \in {"SOLID_DEM", "SOLID_REP"})
            /\ (ClassifyBranch(m) = 3 <=> classification = "SWING")
            /\ (ClassifyBranch(m) = 4 <=> classification \in {"COMPETITIVE_DEM", "COMPETITIVE_REP"})
            /\ Magnitude(m.avg_margin).n <= 500 * m.avg_margin.d
                 => classification \in {"SWING", "COMPETITIVE_DEM", "COMPETITIVE_REP"}
            /\ 5 * m.flip_rate.n >= 2 * m.flip_rate.d => classification = "SWING"
            /\ m.avg_margin.n = 0 => classification \in {"SWING", "COMPETITIVE_REP"}

\* a county with |avg_margin| > 5 that is neither solid nor swing: only the
\* rule of lean counties takes it in
C29_Witness ==
    /\ classification = "LEAN_DEM"
    /\ classifyIn.avg_margin = Whole(501)
    /\ classifyIn.margin_std_sq = Whole(900 * 900)
    /\ classifyIn.flip_rate = Rat(7, 20)
    /\ classifyIn.close_election_rate = Whole(0)

\* the identifiers of a table, and the first row of a table with an identifier
IdsOf(rows) == {rows[i].fips : i \in 1..Len(rows)}
FirstWith(rows, f) == rows[CHOOSE i \in 1..Len(rows) :
                             /\ rows[i].fips = f
                             /\ \A j \in 1..(i - 1) : rows[j].fips # f]

\* C22: the swing table process_swing_pair writes has exactly one row for
\* every identifier that occurs in both cycles' files and none for any other,
\* also when a file lists an identifier more than once (the first occurrence
\* is the one used); its row count is at most the smaller of the two
\* distinct-identifier counts.  The duplicate check never stops the pair: a
\* table is written whenever the files share an identifier (with none shared,
\* whether the empty table is written depends on the library release).
C22_OneRowPerCommonId ==
    (called = "process_swing_pair" /\ elections[1].exists /\ elections[2].exists) =>
        LET ids1 == IdsOf(elections[1].rows)
            ids2 == IdsOf(elections[2].rows)
            out  == swingFile.rows
        IN  /\ ids1 \cap ids2 # {} => pairResult = "ok" /\ swingFile.exists
            /\ pairResult = "ok" <=> swingFile.exists
            /\ swingFile.exists =>
                  /\ IdsOf(out) = ids1 \cap ids2
                  /\ \A i, j \in 1..Len(out) : out[i].fips = out[j].fips => i = j
                  /\ Len(out) <= Min(Cardinality(ids1), Cardinality(ids2))
                  /\ \A i \in 1..Len(out) :
                        LET a == FirstWith(elections[1].rows, out[i].fips)
                            b == FirstWith(elections[2].rows, out[i].fips)
                        IN  /\ out[i].total_votes_y1 = a.total_votes
                            /\ out[i].total_votes_y2 = b.total_votes

\* the first file lists one identifier twice with different results, the
\* second lists it once next to an identifier the first does not have
C22_Witness ==
    /\ called = "process_swing_pair"
    /\ elections[1].exists /\ elections[2].exists
    /\ Len(elections[1].rows) = 2
    /\ elections[1].rows[1].fips = elections[1].rows[2].fips
    /\ elections[1].rows[1].total_votes # elections[1].rows[2].total_votes
    /\ Cardinality(IdsOf(elections[2].rows)) = 2
    /\ Len(swingFile.rows) = 1

\* C25 (as claimed): normalize_county_name of utils/county_matcher.py strips
\* every suffix of its list, so a base name that ends in none of them and the
\* same name followed by a suffix get the same result; and normalizing a
\* result again changes nothing.
C25_SuffixesStripped ==
    (normalizer = "county_matcher" /\ ~name_a.isna /\ ~name_b.isna) =>
        /\ (/\ \E k \in 1..Len(MatcherSuffixes) :
                   name_a.text = name_b.text \o MatcherSuffixes[k]
            /\ \A j \in 1..Len(MatcherSuffixes) :
                   ~EndsWith(name_b.text, MatcherSuffixes[j]))
              => match_keys[1] = match_keys[2]
        /\ MatcherNormalizeCountyName(Text(match_keys[1])) = match_keys[1]

IdentifiersOf(df) == {df[i].fips : i \in 1..Len(df)}
RowsOf(df) == {df[i] : i \in 1..Len(df)}

\* C24 (as claimed): match_counties on two tables with rows does not raise;
\* a left row is paired with every right row of its identifier; a left row
\* whose identifier no right row has is paired with every right row of its
\* normalized (name, state) whose identifier no left row has; no left row is
\* paired both ways; the result has no other row.
C24_TwoStepMatch ==
    (match_result # <<>> /\ df1 # <<>> /\ df2 # <<>>) =>
        LET res   == match_result[1]
            pairs == RowsOf(res.rows)
            lone1 == {a \in RowsOf(df1) : a.fips \notin IdentifiersOf(df2)}
            lone2 == {b \in RowsOf(df2) : b.fips \notin IdentifiersOf(df1)}
        IN  /\ res.status = "returned"
            /\ \A a \in RowsOf(df1), b \in RowsOf(df2) :
                   a.fips = b.fips => [by |-> "fips", l |-> a, r |-> b] \in pairs
            /\ \A a \in lone1, b \in lone2 :
                   MatcherMatchKey(a) = MatcherMatchKey(b)
                       => [by |-> "name", l |-> a, r |-> b] \in pairs
            /\ \A p, q \in pairs : (p.by = "fips" /\ q.by = "name") => p.l # q.l
            /\ \A p \in pairs :
                   \/ p.by = "fips" /\ p.l.fips = p.r.fips
                   \/ /\ p.by = "name" /\ p.l \in lone1 /\ p.r \in lone2
                      /\ MatcherMatchKey(p.l) = MatcherMatchKey(p.r)

NullSentinels ==
    <<<<"n", "a", "n">>, <<"n", "o", "n", "e">>, <<"<", "n", "a", ">">>, <<"n", "a", "t">>, <<>>>>

\* C27 (as claimed): clean_value_for_json keeps the type of every input: null,
\* NaN, infinity and the null-sentinel strings give null; a Python or numpy
\* boolean gives the same boolean; 'true' / 'false' in any letter case give
\* the booleans; an integer gives that integer, a finite float a number; and a
\* flipped value that is a boolean, a string or null is exported as a JSON
\* boolean or left out.
C27_TypesKept ==
    cleaned_value # <<>> =>
        LET v   == row_value
            out == cleaned_value[1]
        IN  /\ out.json \in {"null", "boolean", "number", "string"}
            /\ (\/ v.type \in {"NoneType", "NAType", "NaTType"}
                \/ v.type \in {"float", "numpy.float64"} /\ v.s \in NotFinite
                \/ v.type = "str" /\ StrIn(Lower(v.s), NullSentinels))
                  => out = JsonNull
            /\ v.type \in {"bool", "numpy.bool_"} => out = JsonBoolean(v.b)
            /\ (v.type = "str" /\ Lower(v.s) = <<"t", "r", "u", "e">>) => out = JsonBoolean(TRUE)
            /\ (v.type = "str" /\ Lower(v.s) = <<"f", "a", "l", "s", "e">>) => out = JsonBoolean(FALSE)
            /\ v.type \in {"int", "numpy.int64"} => out = JsonInteger(v.n)
            /\ (v.type \in {"float", "numpy.float64"} /\ v.s = <<>>) => out.json = "number"
            /\ (prop = "flipped" /\ v.type \in {"NoneType", "bool", "numpy.bool_", "str"})
                  => \A e \in county_data : e.value.json = "boolean"

\* the rows of a county's history that carry election results
HasResults(row) == row.winner # NullWinner
WithResults(h) == SelectSeq(h, HasResults)

\* C23 (as claimed): years_with_data is the number of cycles in which the
\* county has election results, fewer than 3 of them give INSUFFICIENT_DATA
\* also when the map files hold a row of the county for every cycle, and a
\* cycle without results adds nothing to the margin statistics, the close
\* election rate or the flip count.
C23_CyclesWithResults ==
    metrics # <<>> =>
        LET m == metrics[1]
            r == WithResults(county_history)
        IN  /\ m.years_with_data = Len(r)
            /\ Len(r) < 3 => m.classification = "INSUFFICIENT_DATA"
            /\ Len(r) >= 3 =>
                  \A c \in CalculateCountyTrends(r) :
                      /\ m.avg_margin = c.avg_margin
                      /\ m.margin_std_sq = c.margin_std_sq
                      /\ m.close_election_rate = c.close_election_rate
                      /\ m.total_flips = c.total_flips

\* the map files a run of stage 06 leaves, given the ones it read
Stage06Wrote(run) ==
    [f \in Fips |->
        MergeTrendsIntoGeojson(run.read[f],
            run.trends_df[CHOOSE i \in 1..Len(run.trends_df) : run.trends_df[i].fips = f])]

\* C28 (as claimed): stage 06 is idempotent: a run of stage 06 on the map
\* files the run of stage 06 before it wrote yields the same trend record for
\* every county and the same classification and shortlist files as that run.
C28_Stage06Idempotent ==
    \A i \in 2..Len(stage06_runs) :
        stage06_runs[i].read = Stage06Wrote(stage06_runs[i - 1]) =>
            /\ stage06_runs[i].trends_df = stage06_runs[i - 1].trends_df
            /\ stage06_runs[i].classifications = stage06_runs[i - 1].classifications
            /\ stage06_runs[i].bellwethers = stage06_runs[i - 1].bellwethers

\* C21 (as claimed): once stage 06 has completed, bellwether_counties.csv,
\* when it exists, holds the shortlist of the trend table (classification
\* SWING, bellwether_score >= 80, by descending score), whatever stage runs
\* follow, a run of stage 04 --all included.
C21_ShortlistFile ==
    (Len(stage06_runs) >= 1 /\ bellwether_file.exists) =>
        bellwether_file.rows =
            ExportBellwetherCounties(stage06_runs[Len(stage06_runs)].trends_df)

\* C30 (as claimed): once fix_2024_fips has succeeded, elections_2024.csv is
\* keyed only by identifiers of the 2020 table, also after a later run of
\* stage 02 (--all, --year 2024 or the default latest year).  Stated for the
\* raw tables of which the fix keeps a row: with none kept, whether the fix
\* runs to its end depends on the library release.
C30_KeyedBy2020 ==
    (/\ fix_succeeded /\ elections_2024.exists
     /\ MapToLookup(CreateFipsLookup(elections_2020), mit_2024) # <<>>) =>
        \A i \in 1..Len(elections_2024.rows) :
            elections_2024.rows[i].fips \in IdentifiersOf(elections_2020)

====
